---- MODULE Spec2Model ----
(***************************************************************************)
(* Persistence and chat-session layer of the AI e-learning platform:       *)
(* StorageManager (flat collections + library mirror, unnamed/part_003),   *)
(* ChatInterface (session directory, unnamed/part_000) and the App glue    *)
(* that drives them (README.md).                                           *)
(*                                                                         *)
(* Representation.  Ids are positive integers, null/undefined is Null.     *)
(* Timestamps are integers read from the clock `now` (ISO strings in the   *)
(* code, compared through new Date()); a timestamp that is present is      *)
(* truthy whatever its value.  A JavaScript object is a function from      *)
(* field names to values, so {...a, ...b} is Spread(a, b).                 *)
(* ChatInterface keeps this.messages and currentSession.messages as the    *)
(* same array at every handler boundary (saveChatSession, switchSession    *)
(* and loadChatSessions alias them), so the model keeps the list once, in  *)
(* `messages`, and currentSession holds the other fields.                  *)
(***************************************************************************)
EXTENDS Integers, Sequences, FiniteSets, TLC

\* ---------------------------------------------------------------- bounds
MaxTime == 1
MaxIds == 2
MaxQuestions == 1
NumDocs == 2
MaxLoad == 3
NumCallerIds == 1
MaxCalls == 3
NumInstances == 2
MaxStored == 2
MaxTitleLen == 2
MaxNameCalls == 2
MaxEditorCalls == 5

Null == 0

DocIds == 1..NumDocs

VARIABLES
    documents,       \* localStorage ai_elearning_documents (list of records)
    chats,           \* localStorage ai_elearning_chats
    files,           \* localStorage ai_elearning_files
    lib,             \* localStorage ai_elearning_lib: projectId -> project
    now,             \* wall clock
    nextId,          \* ids handed out by StorageManager.generateId
    nextQ,           \* number of the next question typed into the chat input
    currentSession,  \* ChatInterface.currentSession (without messages)
    messages,        \* ChatInterface.messages
    associatedDocId, \* ChatInterface.associatedDocId
    isOpen,          \* ChatInterface.isOpen
    pending,         \* questions of sendMessage calls awaiting the AI reply
    currentDoc,      \* DocumentEditor.currentDocument (its id) or Null
    keys,            \* the localStorage keys that hold a value
    inst,            \* StorageManager instances: progress of initializeStorage
    projectStructure, \* FileSystemManager.projectStructure (in-memory copy)
    useRealAI,       \* AIProcessor.useRealAI
    corrupt,         \* storage keys whose text does not parse
    settings,        \* the settings key
    tab2,            \* the ChatInterface of a second tab on the same storage
    editor,          \* DocumentEditor: currentDocument, isEditing, timer
    last             \* the handler that ran last and its arguments

vars == <<documents, chats, files, lib, now, nextId, nextQ, currentSession,
          messages, associatedDocId, isOpen, pending, currentDoc, keys, inst,
          projectStructure, useRealAI, corrupt, settings, tab2,
          editor, last>>

\* ------------------------------------------------------- object helpers
\* {...a, ...b}
Spread(a, b) ==
    [f \in DOMAIN a \cup DOMAIN b |-> IF f \in DOMAIN b THEN b[f] ELSE a[f]]

Without(a, fs) == [f \in DOMAIN a \ fs |-> a[f]]

Has(a, f) == f \in DOMAIN a

\* a || b on ids
Or(a, b) == IF a # Null THEN a ELSE b

EmptyMap == [x \in {} |-> Null]

\* state that only the specifications about it change
otherVars == <<corrupt, settings, tab2, editor>>

\* the settings initializeStorage seeds
DefaultSettings ==
    [theme |-> "light", language |-> "en", autoSave |-> TRUE,
     exportFormat |-> "docx"]

\* DocumentEditor after construction: no document, not editing, no
\* auto-save timer; text is what documentContent shows
NoEditor ==
    [doc |-> [id |-> 0], isEditing |-> FALSE, timer |-> FALSE, text |-> 0]

\* a tab that has not been opened
NoTab == [open |-> FALSE]

\* every key parses, the settings are the seeded ones, one tab
OtherInit ==
    /\ corrupt = {}
    /\ settings = DefaultSettings
    /\ tab2 = NoTab
    /\ editor = NoEditor

Put(m, k, v) == [x \in DOMAIN m \cup {k} |-> IF x = k THEN v ELSE m[x]]

Remove(m, k) == [x \in DOMAIN m \ {k} |-> m[x]]

\* Array.prototype.findIndex(x => x.id === id), 1-based, 0 when absent.
\* An absent id (undefined) matches no stored record: every stored record
\* carries an id.
FindIndex(s, id) ==
    LET S == {i \in 1..Len(s) : s[i].id = id}
    IN  IF id = Null \/ S = {} THEN 0
        ELSE CHOOSE i \in S : \A j \in S : i <= j

\* Array.prototype.filter(x => x.id !== id)
FilterOut(s, id) == SelectSeq(s, LAMBDA r : r.id # id)

Ids(s) == {s[i].id : i \in 1..Len(s)}

\* ------------------------------------------- StorageManager: storage keys
\* The model keeps a key that holds no value at the empty value of its kind
\* and records in `keys` which keys hold one.
ListKeys == {"documents", "chats", "files"}

AllKeys == ListKeys \cup {"lib"}

Empty(key) == IF key = "lib" THEN EmptyMap ELSE <<>>

Instances == 1..NumInstances

\* initializeStorage visits the keys in this order
KeyOrder == <<"documents", "chats", "files", "lib">>

\* an instance whose constructor has returned
Booted == [k |-> Len(KeyOrder) + 1, phase |-> "read"]

\* every key seeded, every instance constructed, no FileSystemManager state,
\* simulated AI
Seeded ==
    /\ keys = AllKeys
    /\ inst = [i \in Instances |-> Booted]
    /\ projectStructure = EmptyMap
    /\ useRealAI = FALSE
    /\ OtherInit

\* localStorage as one record; wrote collects the keys a call has written
Store ==
    [documents |-> documents, chats |-> chats, files |-> files, lib |-> lib,
     keys |-> keys, wrote |-> {}]

\* getDocuments / getChats / getUploadedFiles / localStorage.getItem(libKey):
\* null for a key without value, the parsed value otherwise
getStored(st, key) ==
    [isNull |-> key \notin st.keys, value |-> st[key]]

\* !x for the value a getter returned: null is falsy, a list (empty or
\* not) and an object are truthy
Not(g) == g.isNull

WriteKey(st, key, value) ==
    [st EXCEPT ![key] = value, !.keys = @ \cup {key}, !.wrote = @ \cup {key}]

SeedKey(st, key) ==
    IF Not(getStored(st, key)) THEN WriteKey(st, key, Empty(key)) ELSE st

\* initializeStorage that seeds without reading first
initializeStorageAlways(st) ==
    WriteKey(WriteKey(WriteKey(WriteKey(st, "documents", <<>>),
                               "chats", <<>>), "files", <<>>),
             "lib", EmptyMap)

\* StorageManager.initializeStorage (the settings key is left out)
initializeStorage(st) ==
    SeedKey(SeedKey(SeedKey(SeedKey(st, "documents"), "chats"), "files"),
            "lib")

\* ----------------------------------------------- StorageManager: library
EntityId(e) == IF Has(e, "id") THEN e.id ELSE Null

EntityTitle(e) == IF Has(e, "title") THEN e.title ELSE Null

ensureProject(root, projectId) ==
    IF projectId \in DOMAIN root THEN root
    ELSE Put(root, projectId,
             [name |-> projectId, docs |-> EmptyMap, chats |-> EmptyMap,
              files |-> EmptyMap])

\* Text is a sequence of characters.  Titles are made of a lower-case and
\* an upper-case letter, a digit, '-', '_' and two characters outside
\* [a-z0-9-_]; a title is kept as a number, TitleText gives its text
\* (bijective numeration over Chars); 0, the falsy title, is the empty text.
Chars == <<"a", "A", "1", "-", "_", " ", "!">>

Bad == {" ", "!"}

RECURSIVE TitleText(_)
TitleText(n) ==
    IF n = 0 THEN <<>>
    ELSE LET d == ((n - 1) % Len(Chars)) + 1
         IN  TitleText((n - d) \div Len(Chars)) \o <<Chars[d]>>

RECURSIVE DropBad(_)
DropBad(s) == IF s # <<>> /\ Head(s) \in Bad THEN DropBad(Tail(s)) ELSE s

\* text.replace(/[^a-z0-9-_]+/gi, '_'): each run of other characters
\* becomes one '_'
RECURSIVE ReplaceRuns(_)
ReplaceRuns(s) ==
    IF s = <<>> THEN <<>>
    ELSE IF Head(s) \in Bad THEN <<"_">> \o ReplaceRuns(DropBad(Tail(s)))
    ELSE <<Head(s)>> \o ReplaceRuns(Tail(s))

\* text.replace(/[^a-z0-9-_]/gi, '_'): each other character becomes '_'
ReplaceEach(s) == [i \in 1..Len(s) |-> IF s[i] \in Bad THEN "_" ELSE s[i]]

ToLowerCase(s) == [i \in 1..Len(s) |-> IF s[i] = "A" THEN "a" ELSE s[i]]

\* 'document' for .md, 'chat' for .json
DefaultName(ext) ==
    IF ext = ".md" THEN <<"d", "o", "c", "u", "m", "e", "n", "t">>
    ELSE <<"c", "h", "a", "t">>

\* `${(x.title || default).replace(/[^a-z0-9-_]+/gi, '_')}${ext}`
FileName(title, ext) ==
    ReplaceRuns(IF title = Null THEN DefaultName(ext) ELSE TitleText(title))
    \o <<ext>>

libSaveDoc(root, projectId, doc) ==
    LET r == ensureProject(root, projectId)
        m == Spread(doc, [contentType |-> "markdown",
                          fileName |-> FileName(EntityTitle(doc), ".md")])
    IN  [r EXCEPT ![projectId].docs = Put(@, doc.id, m)]

\* libDeleteDoc that empties the project's docs instead of removing one entry
libDeleteDocAll(root, projectId, docId) ==
    IF projectId \in DOMAIN root /\ docId \in DOMAIN root[projectId].docs
    THEN [root EXCEPT ![projectId].docs = EmptyMap]
    ELSE root

libDeleteDoc(root, projectId, docId) ==
    IF projectId \in DOMAIN root /\ docId \in DOMAIN root[projectId].docs
    THEN [root EXCEPT ![projectId].docs = Remove(@, docId)]
    ELSE root

libSaveChat(root, projectId, chat) ==
    LET r == ensureProject(root, projectId)
        m == Spread(chat, [contentType |-> "json",
                           fileName |-> FileName(EntityTitle(chat), ".json")])
    IN  [r EXCEPT ![projectId].chats = Put(@, chat.id, m)]

libDeleteChat(root, projectId, chatId) ==
    IF projectId \in DOMAIN root /\ chatId \in DOMAIN root[projectId].chats
    THEN [root EXCEPT ![projectId].chats = Remove(@, chatId)]
    ELSE root

\* ------------------------------------------- StorageManager: collections
\* The three save methods share one shape; `gid` is the value generateId()
\* returns when the entity has no id, `t` the value of new Date().
\* Result: the collection and library as written, and the id stored.

NormalizeCreated(e, gid, t) ==
    Spread(e, [id |-> IF EntityId(e) # Null THEN e.id ELSE gid,
               createdAt |-> IF Has(e, "createdAt") THEN e.createdAt ELSE t,
               updatedAt |-> t])

\* Upsert that moves an updated record to the end of the list
UpsertMoveToEnd(list, e, normalized) ==
    LET i == FindIndex(list, EntityId(e))
    IN  IF i # 0
        THEN Append(FilterOut(list, EntityId(e)), Spread(list[i], normalized))
        ELSE Append(list, normalized)

\* Upsert that never looks for a stored record with the entity's id
UpsertPush(list, e, normalized) == Append(list, normalized)

Upsert(list, e, normalized) ==
    LET i == FindIndex(list, EntityId(e))
    IN  IF i # 0 THEN [list EXCEPT ![i] = Spread(list[i], normalized)]
        ELSE Append(list, normalized)

saveDocument(docs, root, document, projectId, gid, t) ==
    LET normalized == NormalizeCreated(document, gid, t)
    IN  [list |-> Upsert(docs, document, normalized),
         lib  |-> IF projectId # Null
                  THEN libSaveDoc(root, projectId, normalized) ELSE root,
         id   |-> normalized.id]

\* deleteDocument that also removes the solutions of the deleted exercise
deleteDocumentCascade(docs, root, id, projectId) ==
    [list |-> SelectSeq(docs, LAMBDA r :
                  r.id # id /\ ~(Has(r, "parentExerciseId")
                                 /\ r.parentExerciseId = id)),
     lib  |-> IF projectId # Null THEN libDeleteDoc(root, projectId, id)
              ELSE root]

deleteDocument(docs, root, id, projectId) ==
    [list |-> FilterOut(docs, id),
     lib  |-> IF projectId # Null THEN libDeleteDoc(root, projectId, id)
              ELSE root]

saveChatSession(chs, root, chatSession, projectId, gid, t) ==
    LET normalized == NormalizeCreated(chatSession, gid, t)
        docId == IF Has(normalized, "docId") THEN normalized.docId ELSE Null
        proj == Or(projectId, docId)
    IN  [list |-> Upsert(chs, chatSession, normalized),
         lib  |-> IF proj # Null THEN libSaveChat(root, proj, normalized)
                  ELSE root,
         id   |-> normalized.id]

deleteChatSession(chs, root, id, projectId) ==
    [list |-> FilterOut(chs, id),
     lib  |-> IF projectId # Null THEN libDeleteChat(root, projectId, id)
              ELSE root]

saveUploadedFile(fls, root, fileData, projectId, gid, t) ==
    LET normalized ==
            Spread(fileData,
                   [id |-> IF EntityId(fileData) # Null THEN fileData.id
                           ELSE gid,
                    uploadedAt |-> IF Has(fileData, "uploadedAt")
                                   THEN fileData.uploadedAt ELSE t,
                    updatedAt |-> t])
    IN  [list |-> Upsert(fls, fileData, normalized),
         lib  |-> IF projectId # Null
                  THEN [ensureProject(root, projectId)
                            EXCEPT ![projectId].files =
                                       Put(@, normalized.id, normalized)]
                  ELSE root,
         id   |-> normalized.id]

deleteUploadedFile(fls, root, id, projectId) ==
    [list |-> FilterOut(fls, id),
     lib  |-> IF projectId # Null /\ projectId \in DOMAIN root
                 /\ id \in DOMAIN root[projectId].files
              THEN [root EXCEPT ![projectId].files = Remove(@, id)]
              ELSE root]

\* ------------------------------------------------------- ChatInterface
\* The handlers call one another (delete -> createNewSession -> save), so
\* each is an operator on the record W of everything a handler can touch.

NoSession == [id |-> Null]

W == [cs |-> currentSession, msgs |-> messages, assoc |-> associatedDocId,
      chats |-> chats, lib |-> lib, nextId |-> nextId]

Install(w) ==
    /\ currentSession' = w.cs
    /\ messages' = w.msgs
    /\ associatedDocId' = w.assoc
    /\ chats' = w.chats
    /\ lib' = w.lib
    /\ nextId' = w.nextId

DocIdOf(r) == IF Has(r, "docId") THEN r.docId ELSE Null

MessagesOf(r) == IF Has(r, "messages") THEN r.messages ELSE <<>>

\* saveChatSession that keeps the messages of the persisted record and adds
\* the in-memory messages it lacks
CISaveMerging(w, t) ==
    IF w.cs = NoSession THEN w
    ELSE LET cs1 == Spread(w.cs, [updatedAt |-> t,
                                  docId |-> Or(w.assoc, DocIdOf(w.cs))])
             i   == FindIndex(w.chats, w.cs.id)
             old == IF i = 0 THEN <<>> ELSE MessagesOf(w.chats[i])
             new == SelectSeq(w.msgs,
                              LAMBDA m : \A j \in 1..Len(old) : old[j] # m)
             r   == saveChatSession(w.chats, w.lib,
                                    Spread(cs1, [messages |-> old \o new]),
                                    Null, w.nextId, t)
         IN  [w EXCEPT !.cs = cs1, !.chats = r.list, !.lib = r.lib]

\* ChatInterface.saveChatSession
CISave(w, t) ==
    IF w.cs = NoSession THEN w
    ELSE LET cs1 == Spread(w.cs, [updatedAt |-> t,
                                  docId |-> Or(w.assoc, DocIdOf(w.cs))])
             r   == saveChatSession(w.chats, w.lib,
                                    Spread(cs1, [messages |-> w.msgs]),
                                    Null, w.nextId, t)
         IN  [w EXCEPT !.cs = cs1, !.chats = r.list, !.lib = r.lib]

\* A message is modelled by its type and content; its id, timestamp and
\* selectedText are written but never read by a handler.
WelcomeMessage(doc) == [type |-> "ai", content |-> <<"welcome", doc>>]

\* createNewSession with the forceNew test dropped from the reuse guard
createNewSessionReuse(w, forceNew, doc, t) ==
    IF w.cs # NoSession /\ Len(w.msgs) <= 1 THEN w
    ELSE LET cs0 == [id |-> w.nextId, title |-> doc,
                     docId |-> IF doc # Null THEN doc ELSE w.assoc,
                     createdAt |-> t, updatedAt |-> t]
             w1 == [w EXCEPT !.cs = cs0,
                             !.msgs = <<WelcomeMessage(doc)>>,
                             !.nextId = @ + 1]
         IN  CISave(w1, t)

\* ChatInterface.createNewSession; doc is documentEditor.getCurrentDocument()
createNewSession(w, forceNew, doc, t) ==
    IF ~forceNew /\ w.cs # NoSession /\ Len(w.msgs) <= 1 THEN w
    ELSE LET cs0 == [id |-> w.nextId, title |-> doc,
                     docId |-> IF doc # Null THEN doc ELSE w.assoc,
                     createdAt |-> t, updatedAt |-> t]
             w1 == [w EXCEPT !.cs = cs0,
                             !.msgs = <<WelcomeMessage(doc)>>,
                             !.nextId = @ + 1]
         IN  CISave(w1, t)

\* Array.prototype.sort((a, b) => new Date(b.updatedAt) - new Date(a.updatedAt))
\* is stable: records with equal updatedAt keep their order.
RECURSIVE InsertDesc(_, _)
InsertDesc(s, x) ==
    IF s = <<>> THEN <<x>>
    ELSE IF Head(s).updatedAt >= x.updatedAt
         THEN <<Head(s)>> \o InsertDesc(Tail(s), x)
         ELSE <<x>> \o s

RECURSIVE SortDesc(_)
SortDesc(s) ==
    IF s = <<>> THEN <<>>
    ELSE InsertDesc(SortDesc(SubSeq(s, 1, Len(s) - 1)), s[Len(s)])

\* SessionToLoad without the preference for the displayed document
SessionToLoadMostRecent(sessions, doc) == SortDesc(sessions)[1]

\* SessionToLoad whose fallback takes the first stored session, unsorted
SessionToLoadFirstStored(sessions, doc) ==
    LET docSessions == SelectSeq(sessions, LAMBDA r : DocIdOf(r) = doc)
    IN  IF doc # Null /\ docSessions # <<>> THEN SortDesc(docSessions)[1]
        ELSE sessions[1]

\* the session loadChatSessions picks from a non-empty list
SessionToLoad(sessions, doc) ==
    LET sorted == SortDesc(sessions)
        docSessions == SelectSeq(sorted, LAMBDA r : DocIdOf(r) = doc)
    IN  IF doc # Null /\ docSessions # <<>> THEN SortDesc(docSessions)[1]
        ELSE sorted[1]

\* ChatInterface.loadChatSessions
loadChatSessions(w, doc, t) ==
    IF Len(w.chats) > 0
    THEN LET s == SessionToLoad(w.chats, doc)
         IN  [w EXCEPT !.cs = Without(s, {"messages"}),
                       !.msgs = MessagesOf(s),
                       !.assoc = IF doc # Null THEN doc ELSE @]
    ELSE createNewSession(w, FALSE, doc, t)

\* switchSession that saves the outgoing session before looking up the id
switchSessionSaveFirst(w, sessionId, t) ==
    LET i == FindIndex(w.chats, sessionId)
        w1 == IF w.cs # NoSession THEN CISave(w, t) ELSE w
    IN  IF sessionId = Null \/ i = 0 THEN w1
        ELSE LET found == w.chats[i]
             IN  [w1 EXCEPT !.cs = Without(found, {"messages"}),
                            !.msgs = MessagesOf(found),
                            !.assoc = DocIdOf(found)]

\* switchSession without the save of the outgoing session
switchSessionNoSave(w, sessionId, t) ==
    LET i == FindIndex(w.chats, sessionId)
    IN  IF sessionId = Null \/ i = 0 THEN w
        ELSE LET found == w.chats[i]
             IN  [w EXCEPT !.cs = Without(found, {"messages"}),
                           !.msgs = MessagesOf(found),
                           !.assoc = DocIdOf(found)]

\* ChatInterface.switchSession
switchSession(w, sessionId, t) ==
    LET i == FindIndex(w.chats, sessionId)
    IN  IF sessionId = Null \/ i = 0 THEN w
        ELSE LET found == w.chats[i]
                 w1 == IF w.cs # NoSession THEN CISave(w, t) ELSE w
             IN  [w1 EXCEPT !.cs = Without(found, {"messages"}),
                            !.msgs = MessagesOf(found),
                            !.assoc = DocIdOf(found)]

\* ChatInterface.openChat (the part that touches the session)
openChat(w, doc, t) ==
    IF w.cs = NoSession THEN createNewSession(w, FALSE, doc, t) ELSE w

\* the listener without its saveChatSession call
documentDisplayedNoSave(w, id, t) ==
    LET w1 == [w EXCEPT !.assoc = id]
    IN  IF w1.cs # NoSession
        THEN [w1 EXCEPT !.cs = Spread(@, [docId |-> id])]
        ELSE w1

\* the "document:displayed" listener of initializeEventListeners
documentDisplayed(w, id, t) ==
    LET w1 == [w EXCEPT !.assoc = id]
    IN  IF w1.cs # NoSession
        THEN CISave([w1 EXCEPT !.cs = Spread(@, [docId |-> id])], t)
        ELSE w1

\* ChatInterface.deleteChatSession, after the user confirmed
deleteChatSessionCI(w, sessionId, doc, t) ==
    IF sessionId = Null \/ FindIndex(w.chats, sessionId) = 0 THEN w
    ELSE LET d  == deleteChatSession(w.chats, w.lib, sessionId, Null)
             w1 == [w EXCEPT !.chats = d.list, !.lib = d.lib]
         IN  IF w1.cs # NoSession /\ w1.cs.id = sessionId
             THEN createNewSession(w1, TRUE, doc, t)
             ELSE w1

\* clearCurrentChat without the replacement session
clearCurrentChatNoCreate(w, doc, t) ==
    IF w.cs = NoSession THEN w
    ELSE LET d == deleteChatSession(w.chats, w.lib, w.cs.id, Null)
         IN  [w EXCEPT !.chats = d.list, !.lib = d.lib]

\* ChatInterface.clearCurrentChat, after the user confirmed
clearCurrentChat(w, doc, t) ==
    IF w.cs = NoSession THEN w
    ELSE LET d == deleteChatSession(w.chats, w.lib, w.cs.id, Null)
         IN  createNewSession([w EXCEPT !.chats = d.list, !.lib = d.lib],
                              TRUE, doc, t)

\* ChatInterface.clearChatHistory
clearChatHistory(w, doc, t) ==
    createNewSession([w EXCEPT !.msgs = <<>>], TRUE, doc, t)

\* App.deleteChatSession (history dialog), after the user confirmed
appDeleteChatSession(w, chatId, doc, t) ==
    IF chatId = Null THEN w
    ELSE LET d  == deleteChatSession(w.chats, w.lib, chatId, Null)
             w1 == [w EXCEPT !.chats = d.list, !.lib = d.lib]
         IN  IF w1.cs # NoSession /\ w1.cs.id = chatId
             THEN clearChatHistory(w1, doc, t)
             ELSE w1

\* ------------------------------------------------------------- actions
\* `last` names the handler that ran last, its argument and one fact about
\* the state it started from
Op(name, arg, pre) == [op |-> name, arg |-> arg, pre |-> pre]

\* generateId never repeats a value; the model stops creating sessions when
\* MaxIds ids are used up.
Fits(w) == w.nextId = nextId \/ w.nextId <= MaxIds + 1

\* no handler of the page removes a storage key, constructs a StorageManager,
\* calls the FileSystemManager or switches the AI mode
BootIdle == UNCHANGED <<keys, inst, projectStructure, useRealAI, otherVars>>

Run(w, pend) == Fits(w) /\ Install(w) /\ pending' = pend /\ BootIdle

\* the current session has messages its persisted record lacks
Unsaved ==
    LET i == FindIndex(chats, currentSession.id)
    IN  i = 0 \/ MessagesOf(chats[i]) # messages

UnsavedId == IF Unsaved THEN currentSession.id ELSE Null

\* App.displayDocument(doc): the editor shows doc, then the event fires
DisplayDocument(d) ==
    /\ currentDoc' = d
    /\ Run(documentDisplayed(W, d, now), pending)
    /\ last' = Op("displayDocument", d, DocIdOf(currentSession))
    /\ UNCHANGED <<documents, files, now, nextQ, isOpen>>

\* ChatInterface.toggleChat -> openChat
OpenChat ==
    /\ ~isOpen
    /\ isOpen' = TRUE
    /\ Run(openChat(W, currentDoc, now), pending)
    /\ last' = Op("openChat", Null, Null)
    /\ UNCHANGED <<documents, files, now, nextQ, currentDoc>>

\* ChatInterface.closeChat
CloseChat ==
    /\ isOpen
    /\ isOpen' = FALSE
    /\ Run(CISave(W, now), pending)
    /\ last' = Op("closeChat", Null, DocIdOf(currentSession))
    /\ UNCHANGED <<documents, files, now, nextQ, currentDoc>>

\* DocumentEditor.askFollowupQuestion -> openChatWithSelectedText(text, docId)
AskFollowup ==
    /\ currentDoc # Null
    /\ isOpen' = TRUE
    /\ Run(openChat([W EXCEPT !.assoc = Or(currentDoc, @)], currentDoc, now),
           pending)
    /\ last' = Op("openChatWithSelectedText", currentDoc, Null)
    /\ UNCHANGED <<documents, files, now, nextQ, currentDoc>>

UserMessage(q) == [type |-> "user", content |-> <<"question", q>>]

\* generateAIResponse catches its own failures and resolves with a template
\* answer, so the reply is the answer to q whichever branch produced it
AIMessage(q) == [type |-> "ai", content |-> <<"answer", q>>]

\* ChatInterface.sendMessage up to the await
SendMessage ==
    LET q == nextQ
    IN  /\ q <= MaxQuestions
        /\ nextQ' = q + 1
        /\ Run([W EXCEPT !.msgs = Append(@, UserMessage(q))],
               pending \cup {q})
        /\ last' = Op("sendMessage", q, currentSession.id)
        /\ UNCHANGED <<documents, files, now, isOpen, currentDoc>>

\* ChatInterface.sendMessage from the await on: the reply is pushed and the
\* session saved
AIReply(q) ==
    /\ q \in pending
    /\ Run(CISave([W EXCEPT !.msgs = Append(@, AIMessage(q))], now),
           pending \ {q})
    /\ last' = Op("aiReply", q, DocIdOf(currentSession))
    /\ UNCHANGED <<documents, files, now, nextQ, isOpen, currentDoc>>

CreateNewSession(forceNew) ==
    /\ Run(createNewSession(W, forceNew, currentDoc, now), pending)
    /\ last' = Op("createNewSession", IF forceNew THEN 1 ELSE 0,
                  Len(messages))
    /\ UNCHANGED <<documents, files, now, nextQ, isOpen, currentDoc>>

SwitchSession(sessionId) ==
    /\ Run(switchSession(W, sessionId, now), pending)
    /\ last' = Op("switchSession", sessionId, UnsavedId)
    /\ UNCHANGED <<documents, files, now, nextQ, isOpen, currentDoc>>

\* App.openChatSessionById
OpenChatSessionById(chatId) ==
    /\ FindIndex(chats, chatId) # 0
    /\ isOpen' = TRUE
    /\ Run(switchSession(openChat(W, currentDoc, now), chatId, now), pending)
    /\ last' = Op("openChatSessionById", chatId, UnsavedId)
    /\ UNCHANGED <<documents, files, now, nextQ, currentDoc>>

\* the three deletions are modelled for a confirm() answered yes; answered
\* no, they return without touching anything
ClearCurrentChat ==
    /\ Run(clearCurrentChat(W, currentDoc, now), pending)
    /\ last' = Op("clearCurrentChat", currentSession.id, currentSession.id)
    /\ UNCHANGED <<documents, files, now, nextQ, isOpen, currentDoc>>

DeleteChatSession(sessionId) ==
    /\ Run(deleteChatSessionCI(W, sessionId, currentDoc, now), pending)
    /\ last' = Op("deleteChatSession", sessionId, currentSession.id)
    /\ UNCHANGED <<documents, files, now, nextQ, isOpen, currentDoc>>

AppDeleteChatSession(chatId) ==
    /\ Run(appDeleteChatSession(W, chatId, currentDoc, now), pending)
    /\ last' = Op("appDeleteChatSession", chatId, currentSession.id)
    /\ UNCHANGED <<documents, files, now, nextQ, isOpen, currentDoc>>

LoadChatSessions ==
    /\ Run(loadChatSessions(W, currentDoc, now), pending)
    /\ last' = Op("loadChatSessions", currentDoc, Null)
    /\ UNCHANGED <<documents, files, now, nextQ, isOpen, currentDoc>>

\* the page is loaded again: the constructors run on the persisted storage,
\* no document is displayed and the awaited replies are gone
Reload ==
    /\ currentDoc' = Null
    /\ isOpen' = FALSE
    /\ Run(loadChatSessions([W EXCEPT !.cs = NoSession, !.msgs = <<>>,
                                      !.assoc = Null], Null, now), {})
    /\ last' = Op("reload", Null, Null)
    /\ UNCHANGED <<documents, files, now, nextQ>>

\* ChatInterface before initializeChat has run
Constructed ==
    /\ currentSession = NoSession
    /\ messages = <<>>
    /\ associatedDocId = Null
    /\ isOpen = FALSE
    /\ pending = {}
    /\ nextQ = 1

\* the first load: StorageManager seeds the empty collections, ChatInterface
\* finds no session and creates one
Init ==
    /\ documents = <<>>
    /\ files = <<>>
    /\ now = 0
    /\ isOpen = FALSE
    /\ pending = {}
    /\ nextQ = 1
    /\ currentDoc = Null
    /\ Seeded
    /\ last = Op("init", Null, Null)
    /\ LET w == loadChatSessions(
                   [cs |-> NoSession, msgs |-> <<>>, assoc |-> Null,
                    chats |-> <<>>, lib |-> EmptyMap, nextId |-> 1],
                   Null, 0)
       IN  /\ currentSession = w.cs
           /\ messages = w.msgs
           /\ associatedDocId = w.assoc
           /\ chats = w.chats
           /\ lib = w.lib
           /\ nextId = w.nextId

\* One visit of the page at one instant: every handler of the chat panel,
\* the history dialog and the editor that touches a session.
Next ==
    \/ \E d \in DocIds : DisplayDocument(d)
    \/ OpenChat
    \/ CloseChat
    \/ AskFollowup
    \/ SendMessage
    \/ \E q \in 1..MaxQuestions : AIReply(q)
    \/ \E f \in BOOLEAN : CreateNewSession(f)
    \/ \E id \in 0..MaxIds : SwitchSession(id)
    \/ \E id \in 1..MaxIds : OpenChatSessionById(id)
    \/ ClearCurrentChat
    \/ \E id \in 1..MaxIds : DeleteChatSession(id)
    \/ \E id \in 1..MaxIds : AppDeleteChatSession(id)
    \/ LoadChatSessions
    \/ Reload

Spec == Init /\ [][Next]_vars

\* ------------------------------------------------ bootstrap on any store
\* loadChatSessions on the sessions earlier visits left behind: up to
\* MaxLoad sessions, each bound to a document or to none and last updated
\* at any time, with any document (or none) displayed.
PersistedSession(i, doc, t) ==
    [id |-> i, title |-> doc, docId |-> doc,
     messages |-> <<WelcomeMessage(doc)>>, createdAt |-> 0, updatedAt |-> t]

InitLoad ==
    /\ \E n \in 0..MaxLoad :
         \E f \in [1..n -> (0..NumDocs) \X (0..MaxTime)] :
            chats = [i \in 1..n |-> PersistedSession(i, f[i][1], f[i][2])]
    /\ nextId = Len(chats) + 1
    /\ currentDoc \in 0..NumDocs
    /\ documents = <<>>
    /\ files = <<>>
    /\ lib = EmptyMap
    /\ now = MaxTime
    /\ Constructed
    /\ Seeded
    /\ last = Op("init", Null, Null)

NextLoad == LoadChatSessions

SpecLoad == InitLoad /\ [][NextLoad]_vars

\* ------------------------------------------------- StorageManager alone
\* The storage API driven directly: entities with or without an id, a
\* creation stamp and a title, saved with or without a project.
CallerIds == 11..(10 + NumCallerIds)

ProjectArgs == {Null, 1}

Opt(f, vals) == {EmptyMap} \cup {f :> v : v \in vals}

Entities(stamp) ==
    {a @@ b @@ c : a \in Opt("id", CallerIds), b \in Opt(stamp, {0}),
                   c \in Opt("title", {1, 2})}

\* last also counts the API calls made so far; a run makes at most MaxCalls
StoreOp(name, e, p, id) ==
    [op |-> name, arg |-> id, pre |-> p, ent |-> e,
     calls |-> IF Has(last, "calls") THEN last.calls + 1 ELSE 1]

MayCall == Has(last, "calls") => last.calls < MaxCalls

ChatIdle ==
    /\ UNCHANGED <<nextQ, currentSession, messages, associatedDocId, isOpen,
                   pending, currentDoc>>
    /\ BootIdle

\* generateId() is called only for an entity without id
Generated(e) ==
    /\ EntityId(e) = Null => nextId <= MaxIds
    /\ nextId' = IF EntityId(e) = Null THEN nextId + 1 ELSE nextId

Tick ==
    /\ now < MaxTime
    /\ now' = now + 1
    /\ UNCHANGED <<documents, chats, files, lib, nextId, last>>
    /\ ChatIdle

SaveDocument(e, p) ==
    LET r == saveDocument(documents, lib, e, p, nextId, now)
    IN  /\ MayCall
        /\ Generated(e)
        /\ documents' = r.list
        /\ lib' = r.lib
        /\ last' = StoreOp("saveDocument", e, p, r.id)
        /\ UNCHANGED <<chats, files, now>>
        /\ ChatIdle

DeleteDocument(id, p) ==
    LET r == deleteDocument(documents, lib, id, p)
    IN  /\ MayCall
        /\ documents' = r.list
        /\ lib' = r.lib
        /\ last' = StoreOp("deleteDocument", EmptyMap, p, id)
        /\ UNCHANGED <<chats, files, now, nextId>>
        /\ ChatIdle

SaveChatSession(e, p) ==
    LET r == saveChatSession(chats, lib, e, p, nextId, now)
    IN  /\ MayCall
        /\ Generated(e)
        /\ chats' = r.list
        /\ lib' = r.lib
        /\ last' = StoreOp("saveChatSession", e, p, r.id)
        /\ UNCHANGED <<documents, files, now>>
        /\ ChatIdle

SaveUploadedFile(e, p) ==
    LET r == saveUploadedFile(files, lib, e, p, nextId, now)
    IN  /\ MayCall
        /\ Generated(e)
        /\ files' = r.list
        /\ lib' = r.lib
        /\ last' = StoreOp("saveUploadedFile", e, p, r.id)
        /\ UNCHANGED <<documents, chats, now>>
        /\ ChatIdle

StoreDeleteChatSession(id, p) ==
    LET r == deleteChatSession(chats, lib, id, p)
    IN  /\ MayCall
        /\ chats' = r.list
        /\ lib' = r.lib
        /\ last' = StoreOp("deleteChatSession", EmptyMap, p, id)
        /\ UNCHANGED <<documents, files, now, nextId>>
        /\ ChatIdle

StoreDeleteUploadedFile(id, p) ==
    LET r == deleteUploadedFile(files, lib, id, p)
    IN  /\ MayCall
        /\ files' = r.list
        /\ lib' = r.lib
        /\ last' = StoreOp("deleteUploadedFile", EmptyMap, p, id)
        /\ UNCHANGED <<documents, chats, now, nextId>>
        /\ ChatIdle

\* StorageManager constructed on an empty localStorage
InitStore ==
    /\ documents = <<>>
    /\ chats = <<>>
    /\ files = <<>>
    /\ lib = EmptyMap
    /\ now = 0
    /\ nextId = 1
    /\ currentDoc = Null
    /\ Constructed
    /\ Seeded
    /\ last = Op("init", Null, Null)

NextStore ==
    \/ Tick
    \/ \E e \in Entities("createdAt"), p \in ProjectArgs : SaveDocument(e, p)
    \/ \E id \in CallerIds, p \in ProjectArgs : DeleteDocument(id, p)
    \/ \E e \in Entities("createdAt") : SaveChatSession(e, Null)
    \/ \E e \in Entities("uploadedAt") : SaveUploadedFile(e, Null)
    \/ \E id \in CallerIds : StoreDeleteChatSession(id, Null)
    \/ \E id \in CallerIds : StoreDeleteUploadedFile(id, Null)

SpecStore == InitStore /\ [][NextStore]_vars

\* ------------------------------------------- StorageManager: failing writes
\* localStorage.setItem (or JSON.stringify) may raise in any write.  The
\* collection writers saveDocuments/saveChats/saveUploadedFiles catch and
\* return false; setLibRoot has no try block, so an exception of the library
\* write leaves the calling method at once.  flatOk/libOk say whether the
\* collection write and the library write of this call succeed.

\* save*: library mirror first (when a project is resolved), then
\* `return this.save<Collection>(list)`
WriteSave(old, oldLib, r, mirrored, flatOk, libOk) ==
    IF mirrored /\ ~libOk
    THEN [list |-> old, lib |-> oldLib, ret |-> "throw", raised |-> TRUE]
    ELSE IF ~flatOk
    THEN [list |-> old, lib |-> r.lib, ret |-> "false", raised |-> TRUE]
    ELSE [list |-> r.list, lib |-> r.lib, ret |-> "true", raised |-> FALSE]

\* delete*: the collection write's result is dropped, the library entry is
\* deleted (a write only when the entry exists), then `return true`
WriteDelete(old, oldLib, r, flatOk, libOk) ==
    LET list == IF flatOk THEN r.list ELSE old
    IN  IF r.lib # oldLib /\ ~libOk
        THEN [list |-> list, lib |-> oldLib, ret |-> "throw",
              raised |-> TRUE]
        ELSE [list |-> list, lib |-> r.lib, ret |-> "true",
              raised |-> ~flatOk]

IOOp(name, e, p, id, o) ==
    Spread(StoreOp(name, e, p, id), [ret |-> o.ret, raised |-> o.raised])

SaveDocumentIO(e, p, flatOk, libOk) ==
    LET r == saveDocument(documents, lib, e, p, nextId, now)
        o == WriteSave(documents, lib, r, p # Null, flatOk, libOk)
    IN  /\ MayCall
        /\ Generated(e)
        /\ documents' = o.list
        /\ lib' = o.lib
        /\ last' = IOOp("saveDocument", e, p, r.id, o)
        /\ UNCHANGED <<chats, files, now>>
        /\ ChatIdle

DeleteDocumentIO(id, p, flatOk, libOk) ==
    LET r == deleteDocument(documents, lib, id, p)
        o == WriteDelete(documents, lib, r, flatOk, libOk)
    IN  /\ MayCall
        /\ documents' = o.list
        /\ lib' = o.lib
        /\ last' = IOOp("deleteDocument", EmptyMap, p, id, o)
        /\ UNCHANGED <<chats, files, now, nextId>>
        /\ ChatIdle

SaveChatSessionIO(e, p, flatOk, libOk) ==
    LET r == saveChatSession(chats, lib, e, p, nextId, now)
        o == WriteSave(chats, lib, r, Or(p, DocIdOf(e)) # Null, flatOk, libOk)
    IN  /\ MayCall
        /\ Generated(e)
        /\ chats' = o.list
        /\ lib' = o.lib
        /\ last' = IOOp("saveChatSession", e, p, r.id, o)
        /\ UNCHANGED <<documents, files, now>>
        /\ ChatIdle

DeleteChatSessionIO(id, p, flatOk, libOk) ==
    LET r == deleteChatSession(chats, lib, id, p)
        o == WriteDelete(chats, lib, r, flatOk, libOk)
    IN  /\ MayCall
        /\ chats' = o.list
        /\ lib' = o.lib
        /\ last' = IOOp("deleteChatSession", EmptyMap, p, id, o)
        /\ UNCHANGED <<documents, files, now, nextId>>
        /\ ChatIdle

SaveUploadedFileIO(e, p, flatOk, libOk) ==
    LET r == saveUploadedFile(files, lib, e, p, nextId, now)
        o == WriteSave(files, lib, r, p # Null, flatOk, libOk)
    IN  /\ MayCall
        /\ Generated(e)
        /\ files' = o.list
        /\ lib' = o.lib
        /\ last' = IOOp("saveUploadedFile", e, p, r.id, o)
        /\ UNCHANGED <<documents, chats, now>>
        /\ ChatIdle

DeleteUploadedFileIO(id, p, flatOk, libOk) ==
    LET r == deleteUploadedFile(files, lib, id, p)
        o == WriteDelete(files, lib, r, flatOk, libOk)
    IN  /\ MayCall
        /\ files' = o.list
        /\ lib' = o.lib
        /\ last' = IOOp("deleteUploadedFile", EmptyMap, p, id, o)
        /\ UNCHANGED <<documents, chats, now, nextId>>
        /\ ChatIdle

\* entities with an id or none and a title or none
PlainEntities == {a @@ c : a \in Opt("id", CallerIds), c \in Opt("title", {1})}

NextIO ==
    \E p \in ProjectArgs, flatOk \in BOOLEAN, libOk \in BOOLEAN :
        \/ \E e \in PlainEntities : SaveDocumentIO(e, p, flatOk, libOk)
        \/ \E e \in PlainEntities : SaveChatSessionIO(e, p, flatOk, libOk)
        \/ \E e \in PlainEntities : SaveUploadedFileIO(e, p, flatOk, libOk)
        \/ \E id \in CallerIds : DeleteDocumentIO(id, p, flatOk, libOk)
        \/ \E id \in CallerIds : DeleteChatSessionIO(id, p, flatOk, libOk)
        \/ \E id \in CallerIds : DeleteUploadedFileIO(id, p, flatOk, libOk)

SpecIO == InitStore /\ [][NextIO]_vars

\* ------------------------------------------- StorageManager: construction
\* The constructor on whatever an earlier visit left in localStorage: each
\* key without value or holding a list of up to MaxStored records.
StoredList(n) ==
    [i \in 1..n |-> [id |-> 20 + i, createdAt |-> 0, updatedAt |-> 0]]

Unbooted == [k |-> 1, phase |-> "read"]

InstallStore(st) ==
    /\ documents' = st.documents
    /\ chats' = st.chats
    /\ files' = st.files
    /\ lib' = st.lib
    /\ keys' = st.keys

\* StorageManager.clearAllData: removeItem on every key of storageKeys (the
\* library key is not one of them), then initializeStorage
clearAllData(st) ==
    initializeStorage([st EXCEPT !.documents = <<>>, !.chats = <<>>,
                                 !.files = <<>>, !.keys = @ \ ListKeys])

SomeBooted == \E i \in Instances : inst[i] = Booted

\* new StorageManager(), run without interruption
Construct(i) ==
    LET st == initializeStorage(Store)
    IN  /\ MayCall
        /\ InstallStore(st)
        /\ inst' = [inst EXCEPT ![i] = Booted]
        /\ last' = Spread(StoreOp("initializeStorage", EmptyMap, Null, i),
                          [seeded |-> st.wrote])
        /\ UNCHANGED <<now, nextId, nextQ, currentSession, messages,
                       associatedDocId, isOpen, pending, currentDoc,
                       projectStructure, useRealAI, otherVars>>

ClearAllData ==
    LET st == clearAllData(Store)
    IN  /\ MayCall
        /\ SomeBooted
        /\ InstallStore(st)
        /\ last' = Spread(StoreOp("clearAllData", EmptyMap, Null, Null),
                          [seeded |-> st.wrote])
        /\ UNCHANGED <<inst, now, nextId, nextQ, currentSession, messages,
                       associatedDocId, isOpen, pending, currentDoc,
                       projectStructure, useRealAI, otherVars>>

\* the API of a constructed instance
BootedSave(e) ==
    /\ SomeBooted
    /\ \/ SaveDocument(e, Null)
       \/ SaveChatSession(e, Null)
       \/ SaveUploadedFile(e, Null)

InitSeed ==
    /\ keys \in SUBSET AllKeys
    /\ \E n \in 0..MaxStored :
          documents = IF "documents" \in keys THEN StoredList(n) ELSE <<>>
    /\ \E n \in 0..MaxStored :
          chats = IF "chats" \in keys THEN StoredList(n) ELSE <<>>
    /\ \E n \in 0..MaxStored :
          files = IF "files" \in keys THEN StoredList(n) ELSE <<>>
    /\ lib = EmptyMap
    /\ inst = [i \in Instances |-> Unbooted]
    /\ projectStructure = EmptyMap
    /\ useRealAI = FALSE
    /\ OtherInit
    /\ now = 0
    /\ nextId = 1
    /\ currentDoc = Null
    /\ Constructed
    /\ last = Op("init", Null, Null)

NextSeed ==
    \/ \E i \in Instances : Construct(i)
    \/ ClearAllData
    \/ \E e \in PlainEntities : BootedSave(e)

SpecSeed == InitSeed /\ [][NextSeed]_vars

\* ------------------------------------- StorageManager: two tabs starting
\* Two instances on one localStorage, each in its own tab: a tab runs its
\* script without interruption, but localStorage is shared between the
\* tabs, so between one storage access of an instance and its next the other
\* instance may read and write.  An instance is at key KeyOrder[k], about
\* to read it or (having read null) about to write the seed.
BootRead(i) ==
    LET key == KeyOrder[inst[i].k]
    IN  /\ inst[i].k <= Len(KeyOrder)
        /\ inst[i].phase = "read"
        /\ inst' = [inst EXCEPT ![i] =
                       IF Not(getStored(Store, key))
                       THEN [k |-> @.k, phase |-> "write"]
                       ELSE [k |-> @.k + 1, phase |-> "read"]]
        /\ last' = Op("read", i, inst[i].k)
        /\ UNCHANGED <<documents, chats, files, lib, keys, now, nextId, nextQ,
                       currentSession, messages, associatedDocId, isOpen,
                       pending, currentDoc, projectStructure, useRealAI,
                       otherVars>>

BootWrite(i) ==
    LET key == KeyOrder[inst[i].k]
    IN  /\ inst[i].k <= Len(KeyOrder)
        /\ inst[i].phase = "write"
        /\ InstallStore(WriteKey(Store, key, Empty(key)))
        /\ inst' = [inst EXCEPT ![i] = [k |-> @.k + 1, phase |-> "read"]]
        /\ last' = Op("seed", i, inst[i].k)
        /\ UNCHANGED <<now, nextId, nextQ, currentSession, messages,
                       associatedDocId, isOpen, pending, currentDoc,
                       projectStructure, useRealAI, otherVars>>

InitBoot ==
    /\ keys = {}
    /\ documents = <<>>
    /\ chats = <<>>
    /\ files = <<>>
    /\ lib = EmptyMap
    /\ inst = [i \in Instances |-> Unbooted]
    /\ projectStructure = EmptyMap
    /\ useRealAI = FALSE
    /\ OtherInit
    /\ now = 0
    /\ nextId = 1
    /\ currentDoc = Null
    /\ Constructed
    /\ last = Op("init", Null, Null)

NextBoot ==
    \/ \E i \in Instances : BootRead(i) \/ BootWrite(i)
    \/ \E e \in PlainEntities : BootedSave(e)

SpecBoot == InitBoot /\ [][NextBoot]_vars

\* ------------------------------------------- StorageManager: references
\* Deleting from a store whose entities refer to one another: solution
\* documents name their exercise in parentExerciseId (AIProcessor
\* generateSolutions), chat sessions name a document in docId.
RefIds == 31..(31 + MaxStored)

\* f[i] = -1: no document i; 0: a document without parent; j: a solution
\* of the exercise j
RefDocument(i, parent) ==
    IF parent = Null
    THEN [id |-> i, title |-> 1, createdAt |-> 0, updatedAt |-> 0]
    ELSE [id |-> i, title |-> 1, parentExerciseId |-> parent,
          createdAt |-> 0, updatedAt |-> 0]

RECURSIVE RefDocuments(_, _)
RefDocuments(f, i) ==
    IF i \notin RefIds THEN <<>>
    ELSE (IF f[i] = -1 THEN <<>> ELSE <<RefDocument(i, f[i])>>)
         \o RefDocuments(f, i + 1)

RECURSIVE MirrorDocs(_, _, _)
MirrorDocs(root, projectId, docs) ==
    IF docs = <<>> THEN root
    ELSE MirrorDocs(libSaveDoc(root, projectId, Head(docs)), projectId,
                    Tail(docs))

InitRefs ==
    /\ \E f \in [RefIds -> {-1, Null} \cup RefIds] :
          /\ \A i \in RefIds :
                f[i] \in RefIds => (f[i] # i /\ f[f[i]] = Null)
          /\ documents = RefDocuments(f, 31)
    /\ \E d \in {-1, Null} \cup RefIds :
          chats = IF d = -1 THEN <<>>
                  ELSE <<PersistedSession(41, d, 0)>>
    /\ files = <<[id |-> 51, uploadedAt |-> 0, updatedAt |-> 0]>>
    /\ \E mirrored \in BOOLEAN :
          lib = IF mirrored THEN MirrorDocs(EmptyMap, 1, documents)
                ELSE EmptyMap
    /\ now = 0
    /\ nextId = 1
    /\ currentDoc = Null
    /\ Constructed
    /\ Seeded
    /\ last = Op("init", Null, Null)

NextRefs == \E id \in RefIds, p \in ProjectArgs : DeleteDocument(id, p)

SpecRefs == InitRefs /\ [][NextRefs]_vars

\* ------------------------------------------- StorageManager: doc mirrors
\* Documents saved and deleted under two projects.
LibProjects == {1, 2}

TitledEntities ==
    {a @@ c : a \in Opt("id", CallerIds), c \in Opt("title", {1, 2})}

NextLib ==
    \E p \in LibProjects :
        \/ \E e \in TitledEntities : SaveDocument(e, p)
        \/ \E e \in TitledEntities : SaveChatSession(e, p)
        \/ \E id \in CallerIds \cup (1..MaxIds) : DeleteDocument(id, p)

SpecLib == InitStore /\ [][NextLib]_vars

\* ------------------------------------------------- FileSystemManager
\* The manager works on projectStructure, its in-memory copy of the
\* library, and writes the whole copy to the library key.  The operators
\* take and return f = [ps |-> projectStructure, lib |-> the library key].

loadProjectStructure(root) == root

saveProjectStructure(f) == [f EXCEPT !.lib = f.ps]

sanitizeFileName(name) == ToLowerCase(ReplaceEach(name))

\* the project name is `Project: ${title}`
fsEnsureProject(f, projectId, projectName, t) ==
    IF projectId \in DOMAIN f.ps THEN f
    ELSE saveProjectStructure(
             [f EXCEPT !.ps = Put(@, projectId,
                 [name |-> projectName, docs |-> EmptyMap,
                  chats |-> EmptyMap, files |-> EmptyMap,
                  createdAt |-> t, updatedAt |-> t])])

\* generateProjectId() without source files is made of the current date
DateProject(t) == 100 + t

\* Result: f as left behind, the file name returned, and whether the call
\* threw.  sanitizeFileName(undefined) throws, after ensureProject has run.
saveDocumentToLib(f, document, projectId, t) ==
    LET actualProjectId == IF projectId # Null THEN projectId
                           ELSE DateProject(t)
        f1 == fsEnsureProject(f, actualProjectId, EntityTitle(document), t)
        fileName == sanitizeFileName(TitleText(document.title)) \o <<".md">>
        docData == Spread(document, [fileName |-> fileName,
                                     contentType |-> "markdown",
                                     savedAt |-> t])
        f2 == saveProjectStructure(
                  [f1 EXCEPT !.ps[actualProjectId].docs =
                                 Put(@, document.id, docData),
                             !.ps[actualProjectId].updatedAt = t])
    IN  IF ~Has(document, "title")
        THEN [f |-> f1, fileName |-> <<>>, threw |-> TRUE]
        ELSE [f |-> [f2 EXCEPT !.lib = libSaveDoc(@, actualProjectId,
                                                  docData)],
              fileName |-> fileName, threw |-> FALSE]

saveChatToLib(f, chatSession, projectId, t) ==
    LET actualProjectId ==
            IF projectId # Null THEN projectId
            ELSE IF Has(chatSession, "docId") /\ chatSession.docId # Null
                 THEN chatSession.docId
                 ELSE DateProject(t)
        f1 == fsEnsureProject(f, actualProjectId, EntityTitle(chatSession), t)
        fileName ==
            sanitizeFileName(IF EntityTitle(chatSession) = Null
                             THEN DefaultName(".json")
                             ELSE TitleText(chatSession.title))
            \o <<".json">>
        chatData == Spread(chatSession, [fileName |-> fileName,
                                         contentType |-> "json",
                                         savedAt |-> t])
        f2 == saveProjectStructure(
                  [f1 EXCEPT !.ps[actualProjectId].chats =
                                 Put(@, chatSession.id, chatData),
                             !.ps[actualProjectId].updatedAt = t])
    IN  [f |-> [f2 EXCEPT !.lib = libSaveChat(@, actualProjectId, chatData)],
         fileName |-> fileName, threw |-> FALSE]

deleteDocumentFromLib(f, documentId, projectId, t) ==
    IF projectId = Null \/ projectId \notin DOMAIN f.ps
    THEN [f |-> f, ret |-> FALSE]
    ELSE IF documentId \in DOMAIN f.ps[projectId].docs
    THEN LET f1 == saveProjectStructure(
                       [f EXCEPT !.ps[projectId].docs = Remove(@, documentId),
                                 !.ps[projectId].updatedAt = t])
         IN  [f |-> [f1 EXCEPT !.lib = libDeleteDoc(@, projectId, documentId)],
              ret |-> TRUE]
    ELSE [f |-> f, ret |-> FALSE]

IsEmptyProject(project) ==
    /\ DOMAIN project.docs = {}
    /\ DOMAIN project.chats = {}
    /\ DOMAIN project.files = {}

\* Result: f as left behind and the number returned
cleanupEmptyProjects(f) ==
    LET isEmpty == {q \in DOMAIN f.ps : IsEmptyProject(f.ps[q])}
        cleaned == Cardinality(isEmpty)
        f1 == [f EXCEPT !.ps = [q \in DOMAIN f.ps \ isEmpty |-> f.ps[q]]]
    IN  [f |-> IF cleaned > 0 THEN saveProjectStructure(f1) ELSE f1,
         ret |-> cleaned]

\* --- actions of the FileSystemManager API
Fs == [ps |-> projectStructure, lib |-> lib]

FsFrame ==
    UNCHANGED <<documents, chats, files, now, nextId, nextQ, currentSession,
                messages, associatedDocId, isOpen, pending, currentDoc, keys,
                inst, useRealAI, otherVars>>

\* new FileSystemManager(): a page load
FsConstruct ==
    /\ MayCall
    /\ projectStructure' = loadProjectStructure(lib)
    /\ last' = StoreOp("FileSystemManager", EmptyMap, Null, Null)
    /\ UNCHANGED lib
    /\ FsFrame

FsSaveDocumentToLib(e, p) ==
    LET r == saveDocumentToLib(Fs, e, p, now)
    IN  /\ MayCall
        /\ projectStructure' = r.f.ps
        /\ lib' = r.f.lib
        /\ last' = Spread(StoreOp("saveDocumentToLib", e, p, e.id),
                          [fileName |-> r.fileName, threw |-> r.threw])
        /\ FsFrame

FsSaveChatToLib(e, p) ==
    LET r == saveChatToLib(Fs, e, p, now)
    IN  /\ MayCall
        /\ projectStructure' = r.f.ps
        /\ lib' = r.f.lib
        /\ last' = Spread(StoreOp("saveChatToLib", e, p, e.id),
                          [fileName |-> r.fileName, threw |-> r.threw])
        /\ FsFrame

FsDeleteDocumentFromLib(id, p) ==
    LET r == deleteDocumentFromLib(Fs, id, p, now)
    IN  /\ MayCall
        /\ projectStructure' = r.f.ps
        /\ lib' = r.f.lib
        /\ last' = Spread(StoreOp("deleteDocumentFromLib", EmptyMap, p, id),
                          [ret |-> r.ret])
        /\ FsFrame

FsCleanupEmptyProjects ==
    LET r == cleanupEmptyProjects(Fs)
    IN  /\ MayCall
        /\ projectStructure' = r.f.ps
        /\ lib' = r.f.lib
        /\ last' = Spread(StoreOp("cleanupEmptyProjects", EmptyMap, Null,
                                  Null),
                          [ret |-> r.ret])
        /\ FsFrame

\* --- file names: every title of at most MaxTitleLen characters, and the
\* absent title, through the four library writers
Titles ==
    {n \in 0..((Len(Chars) + 1) ^ MaxTitleLen) :
        Len(TitleText(n)) <= MaxTitleLen}

NamedEntities ==
    {[id |-> 11]} \cup {[id |-> 11, title |-> n] : n \in Titles}

\* a run names at most MaxNameCalls files
NextNames ==
    /\ Has(last, "calls") => last.calls < MaxNameCalls
    /\ \E e \in NamedEntities :
           \/ SaveDocument(e, 1)
           \/ SaveChatSession(e, 1)
           \/ FsSaveDocumentToLib(e, 1)
           \/ FsSaveChatToLib(e, 1)

SpecNames == InitStore /\ [][NextNames]_vars

\* --- the library written by both managers of one page
IdEntities == {e \in TitledEntities : Has(e, "id")}

NextFs ==
    \/ FsConstruct
    \/ FsCleanupEmptyProjects
    \/ \E p \in LibProjects :
           \/ \E e \in TitledEntities : SaveDocument(e, p)
           \/ \E e \in IdEntities : SaveChatSession(e, p)
           \/ \E id \in CallerIds : DeleteDocument(id, p)
           \/ \E e \in IdEntities : FsSaveDocumentToLib(e, p)
           \/ \E e \in IdEntities : FsSaveChatToLib(e, p)
           \/ \E id \in CallerIds : FsDeleteDocumentFromLib(id, p)

SpecFs == InitStore /\ [][NextFs]_vars

\* -------------------------------------------------------- AIProcessor
\* A content is a sequence of parts: the reply of the real AI or the text
\* the simulated AI builds from its templates, after the note the catch
\* block puts in front.
FallbackNote == "*Note: Using simulated AI due to API error*"

Template(kind) == <<"template", kind>>

RealReply(kind) == <<"reply", kind>>

\* the try/catch around the AI call; `ok` is whether the real AI answers
Generate(kind, ok) ==
    IF useRealAI
    THEN IF ok THEN RealReply(kind) ELSE <<FallbackNote>> \o Template(kind)
    ELSE Template(kind)

\* the titles are built from the kind and the date: one title per kind
AiTitle(kind) ==
    CASE kind = "summary" -> 1
      [] kind = "explanation" -> 2
      [] kind = "exercise" -> 3
      [] kind = "solution" -> 4

AiDocument(kind, content, numFiles) ==
    [id |-> nextId, title |-> AiTitle(kind), type |-> kind,
     content |-> content, sourceFiles |-> numFiles,
     aiType |-> IF useRealAI THEN "real" ELSE "simulated",
     createdAt |-> now]

\* StorageManager.getDocument: 0 stands for undefined
getDocument(docs, id) ==
    LET i == FindIndex(docs, id)
    IN  IF i = 0 THEN [found |-> FALSE, id |-> Null]
        ELSE Spread([found |-> TRUE], docs[i])

AiFrame ==
    UNCHANGED <<chats, files, now, nextQ, currentSession, messages,
                associatedDocId, isOpen, pending, currentDoc, keys, inst,
                projectStructure, otherVars>>

AiOp(name, doc, aiFailed, threw) ==
    Spread(StoreOp(name, doc, Null, EntityId(doc)),
           [aiFailed |-> aiFailed, threw |-> threw])

\* the operation throws before anything is generated
AiThrows(name) ==
    /\ last' = AiOp(name, EmptyMap, FALSE, TRUE)
    /\ UNCHANGED <<documents, lib, nextId, useRealAI>>
    /\ AiFrame

\* id: storageManager.generateId(); storageManager.saveDocument(document),
\* its result dropped; the document is returned
AiSaves(name, doc, aiFailed, flatOk) ==
    LET r == saveDocument(documents, lib, doc, Null, nextId + 1, now)
        o == WriteSave(documents, lib, r, FALSE, flatOk, TRUE)
    IN  /\ nextId <= MaxIds
        /\ nextId' = nextId + 1
        /\ documents' = o.list
        /\ lib' = o.lib
        /\ last' = AiOp(name, doc, aiFailed, FALSE)
        /\ UNCHANGED useRealAI
        /\ AiFrame

\* `configured`: realAIHandler exists and has an API key
SetUseRealAI(useReal, configured) ==
    /\ MayCall
    /\ useRealAI' = (useReal /\ configured)
    /\ last' = StoreOp("setUseRealAI", EmptyMap, Null, Null)
    /\ UNCHANGED <<documents, lib, nextId>>
    /\ AiFrame

SummarizeDocuments(numFiles, ok, flatOk) ==
    /\ MayCall
    /\ IF numFiles = 0 THEN AiThrows("summarizeDocuments")
       ELSE AiSaves("summarizeDocuments",
                    AiDocument("summary", Generate("summary", ok), numFiles),
                    useRealAI /\ ~ok, flatOk)

ExplainContent(numFiles, selectedTopic, ok, flatOk) ==
    /\ MayCall
    /\ IF numFiles = 0 THEN AiThrows("explainContent")
       ELSE AiSaves("explainContent",
                    Spread(AiDocument("explanation",
                                      Generate("explanation", ok), numFiles),
                           [selectedTopic |-> selectedTopic]),
                    useRealAI /\ ~ok, flatOk)

GenerateExercises(numFiles, ok, flatOk) ==
    /\ MayCall
    /\ IF numFiles = 0 THEN AiThrows("generateExercises")
       ELSE AiSaves("generateExercises",
                    Spread(AiDocument("exercise", Generate("exercise", ok),
                                      numFiles),
                           [solutions |-> Generate("solution", ok),
                            hasSolutions |-> TRUE]),
                    useRealAI /\ ~ok, flatOk)

\* an exercise document saved before solutions were generated with it
OldExercise ==
    [id |-> 11, title |-> AiTitle("exercise"), type |-> "exercise",
     content |-> Template("exercise"), sourceFiles |-> 1,
     aiType |-> "simulated", createdAt |-> 0]

GenerateSolutions(exerciseDocument, ok, flatOk) ==
    /\ MayCall
    /\ IF exerciseDocument.type # "exercise"
       THEN AiThrows("generateSolutions")
       ELSE IF Has(exerciseDocument, "hasSolutions")
               /\ exerciseDocument.hasSolutions
       THEN AiSaves("generateSolutions",
                    Spread(AiDocument("solution", exerciseDocument.solutions,
                                      exerciseDocument.sourceFiles),
                           [parentExerciseId |-> exerciseDocument.id,
                            aiType |-> exerciseDocument.aiType]),
                    FALSE, flatOk)
       ELSE AiSaves("generateSolutions",
                    Spread(AiDocument("solution", Generate("solution", ok),
                                      exerciseDocument.sourceFiles),
                           [parentExerciseId |-> exerciseDocument.id]),
                    useRealAI /\ ~ok, flatOk)

NextAI ==
    \/ \E useReal, configured \in BOOLEAN : SetUseRealAI(useReal, configured)
    \/ \E numFiles \in 0..1, ok, flatOk \in BOOLEAN :
           \/ SummarizeDocuments(numFiles, ok, flatOk)
           \/ \E selectedTopic \in {Null, 1} :
                  ExplainContent(numFiles, selectedTopic, ok, flatOk)
           \/ GenerateExercises(numFiles, ok, flatOk)
    \/ \E exerciseDocument \in
              {documents[i] : i \in 1..Len(documents)} \cup {OldExercise},
          ok, flatOk \in BOOLEAN :
           GenerateSolutions(exerciseDocument, ok, flatOk)

SpecAI == InitStore /\ [][NextAI]_vars

\* --- reads and deletes by id on keys that may hold no value
\* initializeStorage whose writes of the keys in `failing` fail: saveDocuments
\* / saveChats / saveUploadedFiles catch the error, the key stays without
\* value and the constructor returns
initializeStorageFailing(st, failing) ==
    LET seeded == initializeStorage(st)
        kept == {k \in ListKeys \cap failing : k \notin st.keys}
    IN  [seeded EXCEPT !.keys = @ \ kept, !.wrote = @ \ kept]

ConstructFailing(i, failing) ==
    LET st == initializeStorageFailing(Store, failing)
    IN  /\ MayCall
        /\ InstallStore(st)
        /\ inst' = [inst EXCEPT ![i] = Booted]
        /\ last' = Spread(StoreOp("initializeStorage", EmptyMap, Null, i),
                          [seeded |-> st.wrote])
        /\ UNCHANGED <<now, nextId, nextQ, currentSession, messages,
                       associatedDocId, isOpen, pending, currentDoc,
                       projectStructure, useRealAI, otherVars>>

\* getDocument / getChatSession / getUploadedFile: list.find(x => x.id === id)
\* on what the getter returned; null.find throws a TypeError
findStored(st, key, id) ==
    LET g == getStored(st, key)
    IN  IF g.isNull THEN "throw"
        ELSE IF FindIndex(g.value, id) = 0 THEN "undefined" ELSE "found"

\* deleteDocument / deleteChatSession / deleteUploadedFile on the keyed store:
\* (getter() || []).filter(...), written back, then the library entry
deleteStored(st, key, id, projectId) ==
    LET g == getStored(st, key)
        list == IF g.isNull THEN <<>> ELSE g.value
        d == CASE key = "documents" ->
                      deleteDocument(list, st.lib, id, projectId)
               [] key = "chats" ->
                      deleteChatSession(list, st.lib, id, projectId)
               [] key = "files" ->
                      deleteUploadedFile(list, st.lib, id, projectId)
    IN  [WriteKey(st, key, d.list) EXCEPT !.lib = d.lib]

StoredFrame ==
    UNCHANGED <<inst, now, nextId, nextQ, currentSession, messages,
                associatedDocId, isOpen, pending, currentDoc,
                projectStructure, useRealAI, otherVars>>

GetStored(key, id) ==
    /\ MayCall
    /\ SomeBooted
    /\ last' = Spread(StoreOp("get", EmptyMap, Null, id),
                      [key |-> key, ret |-> findStored(Store, key, id)])
    /\ UNCHANGED <<documents, chats, files, lib, keys>>
    /\ StoredFrame

DeleteStored(key, id, p) ==
    /\ MayCall
    /\ SomeBooted
    /\ InstallStore(deleteStored(Store, key, id, p))
    /\ last' = Spread(StoreOp("delete", EmptyMap, p, id),
                      [key |-> key, ret |-> "true"])
    /\ StoredFrame

\* ids of StoredList records, and one more that no record has
StoredIds == 21..(21 + MaxStored)

NextGet ==
    \/ \E i \in Instances, failing \in SUBSET ListKeys :
           ConstructFailing(i, failing)
    \/ \E key \in ListKeys, id \in StoredIds : GetStored(key, id)
    \/ \E key \in ListKeys, id \in StoredIds, p \in ProjectArgs :
           DeleteStored(key, id, p)

SpecGet == InitSeed /\ [][NextGet]_vars

\* --- keys whose text does not parse
\* getDocuments / getChats / getUploadedFiles: JSON.parse throws, the catch
\* returns []
ReadList(key) ==
    IF key \in corrupt THEN <<>>
    ELSE CASE key = "documents" -> documents
           [] key = "chats" -> chats
           [] key = "files" -> files

\* getLibRoot: the catch returns {}
ReadLib == IF "lib" \in corrupt THEN EmptyMap ELSE lib

\* getSettings: the catch returns null
ReadSettings ==
    [isNull |-> "settings" \in corrupt, value |-> settings]

\* setItem replaces the text of the key
WriteList(key, list, root) ==
    /\ documents' = IF key = "documents" THEN list ELSE documents
    /\ chats' = IF key = "chats" THEN list ELSE chats
    /\ files' = IF key = "files" THEN list ELSE files
    /\ lib' = IF root # ReadLib \/ "lib" \notin corrupt THEN root ELSE lib
    /\ corrupt' = (corrupt \ {key})
                      \ (IF root # ReadLib THEN {"lib"} ELSE {})
    /\ UNCHANGED <<settings, tab2, editor>>

CorruptFrame ==
    UNCHANGED <<now, nextQ, currentSession, messages, associatedDocId,
                isOpen, pending, currentDoc, keys, inst, projectStructure,
                useRealAI>>

CorruptOp(name, key, e, p, id, ret) ==
    Spread(StoreOp(name, e, p, id),
           [key |-> key, ret |-> ret,
            wasCorrupt |-> key \in corrupt
                               \/ (p # Null /\ "lib" \in corrupt)])

\* getDocuments / getChats / getUploadedFiles
GetList(key) ==
    /\ MayCall
    /\ last' = Spread(CorruptOp("getList", key, EmptyMap, Null, Null, "ok"),
                      [value |-> ReadList(key)])
    /\ UNCHANGED <<documents, chats, files, lib, nextId, otherVars>>
    /\ CorruptFrame

\* getDocument / getChatSession / getUploadedFile
GetById(key, id) ==
    /\ MayCall
    /\ last' = CorruptOp("get", key, EmptyMap, Null, id,
                         IF FindIndex(ReadList(key), id) = 0 THEN "undefined"
                         ELSE "found")
    /\ UNCHANGED <<documents, chats, files, lib, nextId, otherVars>>
    /\ CorruptFrame

\* searchDocuments: doc.title.toLowerCase().includes(q) || doc.content... on
\* each record; the records here have no content, so a record without title
\* or whose title lacks the query throws.  searchChats: chat.messages.some
\* throws on a record without messages.  `hit`: the titles contain the query
Search(key, hit) ==
    LET list == ReadList(key)
        throws(x) == IF key = "documents" THEN ~Has(x, "title") \/ ~hit
                     ELSE ~Has(x, "messages")
    IN  /\ MayCall
        /\ key \in {"documents", "chats"}
        /\ last' = CorruptOp("search", key, EmptyMap, Null, Null,
                             IF \E i \in 1..Len(list) : throws(list[i])
                             THEN "throw" ELSE "ok")
        /\ UNCHANGED <<documents, chats, files, lib, nextId, otherVars>>
        /\ CorruptFrame

SaveTo(key, e, p) ==
    LET r == CASE key = "documents" ->
                      saveDocument(ReadList(key), ReadLib, e, p, nextId, now)
               [] key = "chats" ->
                      saveChatSession(ReadList(key), ReadLib, e, p, nextId,
                                      now)
               [] key = "files" ->
                      saveUploadedFile(ReadList(key), ReadLib, e, p, nextId,
                                       now)
    IN  /\ MayCall
        /\ Generated(e)
        /\ WriteList(key, r.list, r.lib)
        /\ last' = CorruptOp("save", key, e, p, r.id, "true")
        /\ CorruptFrame

DeleteFrom(key, id, p) ==
    LET r == CASE key = "documents" ->
                      deleteDocument(ReadList(key), ReadLib, id, p)
               [] key = "chats" ->
                      deleteChatSession(ReadList(key), ReadLib, id, p)
               [] key = "files" ->
                      deleteUploadedFile(ReadList(key), ReadLib, id, p)
    IN  /\ MayCall
        /\ WriteList(key, r.list, r.lib)
        /\ last' = CorruptOp("delete", key, EmptyMap, p, id, "true")
        /\ UNCHANGED nextId
        /\ CorruptFrame

\* updateSetting: settings[key] = value on what getSettings returned;
\* an assignment on null throws a TypeError
UpdateSetting(k, value) ==
    LET g == ReadSettings
    IN  /\ MayCall
        /\ settings' = IF g.isNull THEN settings
                       ELSE [g.value EXCEPT ![k] = value]
        /\ last' = CorruptOp("updateSetting", "settings", EmptyMap, Null,
                             Null, IF g.isNull THEN "throw" ELSE "true")
        /\ UNCHANGED <<documents, chats, files, lib, nextId, corrupt, tab2,
                       editor>>
        /\ CorruptFrame

\* every key holds a value; any of them may hold text that does not parse
InitCorrupt ==
    /\ documents = <<>>
    /\ chats = <<>>
    /\ files = <<>>
    /\ lib = EmptyMap
    /\ now = 0
    /\ nextId = 1
    /\ currentDoc = Null
    /\ Constructed
    /\ keys = AllKeys
    /\ inst = [i \in Instances |-> Booted]
    /\ projectStructure = EmptyMap
    /\ useRealAI = FALSE
    /\ corrupt \in SUBSET (AllKeys \cup {"settings"})
    /\ settings = DefaultSettings
    /\ tab2 = NoTab
    /\ editor = NoEditor
    /\ last = Op("init", Null, Null)

NextCorrupt ==
    \/ \E key \in ListKeys :
           \/ GetList(key)
           \/ \E id \in CallerIds : GetById(key, id)
           \/ \E hit \in BOOLEAN : Search(key, hit)
           \/ \E e \in PlainEntities, p \in ProjectArgs : SaveTo(key, e, p)
           \/ \E id \in CallerIds, p \in ProjectArgs : DeleteFrom(key, id, p)
    \/ \E value \in {"light", "dark"} : UpdateSetting("theme", value)

SpecCorrupt == InitCorrupt /\ [][NextCorrupt]_vars

\* --- two tabs on the same storage
\* The first tab is the ChatInterface of the variables currentSession,
\* messages, associatedDocId and pending; tab2 holds the same fields of the
\* second tab's ChatInterface.  Both read and write the same chats and lib.
W2 == [cs |-> tab2.cs, msgs |-> tab2.msgs, assoc |-> tab2.assoc,
       chats |-> chats, lib |-> lib, nextId |-> nextId]

Install2(w, pend) ==
    /\ tab2' = [open |-> TRUE, cs |-> w.cs, msgs |-> w.msgs,
                assoc |-> w.assoc, pending |-> pend]
    /\ chats' = w.chats
    /\ lib' = w.lib
    /\ nextId' = w.nextId

Tab2Frame ==
    UNCHANGED <<documents, files, now, nextQ, currentSession, messages,
                associatedDocId, isOpen, pending, currentDoc, keys, inst,
                projectStructure, useRealAI, corrupt, settings, editor>>

\* the persisted record of the session has messages the tab does not hold
Behind(w) ==
    LET i == FindIndex(w.chats, w.cs.id)
    IN  i # 0 /\ \E j \in 1..Len(w.chats[i].messages) :
                     \A k \in 1..Len(w.msgs) :
                         w.msgs[k] # w.chats[i].messages[j]

\* the second tab is opened: its constructor loads the sessions
Tab2Open ==
    /\ ~tab2.open
    /\ LET w == loadChatSessions([W EXCEPT !.cs = NoSession, !.msgs = <<>>,
                                           !.assoc = Null], Null, now)
       IN  Fits(w) /\ Install2(w, {})
    /\ last' = Op("tab2Open", Null, Null)
    /\ Tab2Frame

\* questions typed in the second tab are numbered after the first tab's
Tab2Questions == (MaxQuestions + 1)..(2 * MaxQuestions)

\* sendMessage in the second tab up to the await
Tab2SendMessage(q) ==
    /\ tab2.open
    /\ \A m \in 1..Len(tab2.msgs) : tab2.msgs[m] # UserMessage(q)
    /\ q \notin tab2.pending
    /\ Install2([W2 EXCEPT !.msgs = Append(@, UserMessage(q))],
                tab2.pending \cup {q})
    /\ last' = Op("tab2SendMessage", q, tab2.cs.id)
    /\ Tab2Frame

\* sendMessage in the second tab from the await on
Tab2AIReply(q) ==
    /\ tab2.open
    /\ q \in tab2.pending
    /\ LET w == CISave([W2 EXCEPT !.msgs = Append(@, AIMessage(q))], now)
       IN  Install2(w, tab2.pending \ {q})
    /\ last' = Op("tab2AIReply", q, IF Behind(W2) THEN tab2.cs.id ELSE Null)
    /\ Tab2Frame

NextTabs ==
    \/ SendMessage
    \/ \E q \in 1..MaxQuestions : AIReply(q)
    \/ \E f \in BOOLEAN : CreateNewSession(f)
    \/ \E id \in 1..MaxIds : SwitchSession(id)
    \/ Tab2Open
    \/ \E q \in Tab2Questions : Tab2SendMessage(q)
    \/ \E q \in Tab2Questions : Tab2AIReply(q)

SpecTabs == Init /\ [][NextTabs]_vars

\* ----------------------------------------------------- DocumentEditor
\* The editor holds the displayed document as an object of its own; the
\* history dialog deletes through StorageManager only.  last.deleted
\* collects the ids App.deleteDocument has deleted.
EditorFrame ==
    UNCHANGED <<chats, files, lib, now, nextId, nextQ, currentSession,
                messages, associatedDocId, isOpen, pending, currentDoc, keys,
                inst, projectStructure, useRealAI, corrupt, settings, tab2>>

\* a run makes at most MaxEditorCalls calls
EditorMayCall == Has(last, "calls") => last.calls < MaxEditorCalls

Deleted == IF Has(last, "deleted") THEN last.deleted ELSE {}

EditorOp(name, id, deleted) ==
    Spread(StoreOp(name, EmptyMap, Null, id), [deleted |-> deleted])

\* DocumentEditor.displayDocument: the content is rendered, edit mode is
\* left; a pending auto-save timer is not cleared
EditorDisplayDocument(i) ==
    /\ EditorMayCall
    /\ i \in 1..Len(documents)
    /\ editor' = [editor EXCEPT !.doc = documents[i], !.isEditing = FALSE,
                                !.text = 0]
    /\ last' = EditorOp("displayDocument", documents[i].id, Deleted)
    /\ UNCHANGED documents
    /\ EditorFrame

ToggleEditMode ==
    /\ EditorMayCall
    /\ editor.doc.id # Null
    /\ editor' = [editor EXCEPT !.isEditing = ~@]
    /\ last' = EditorOp("toggleEditMode", editor.doc.id, Deleted)
    /\ UNCHANGED documents
    /\ EditorFrame

\* an input event on the content: the text changes, the timer is restarted
HandleContentChange ==
    /\ EditorMayCall
    /\ editor.isEditing /\ editor.doc.id # Null
    /\ editor' = [editor EXCEPT !.text = 1, !.timer = TRUE]
    /\ last' = EditorOp("handleContentChange", editor.doc.id, Deleted)
    /\ UNCHANGED documents
    /\ EditorFrame

\* DocumentEditor.saveDocument: currentDocument gets the text and the date
\* and goes to StorageManager.saveDocument
editorSave(docs, ed, t) ==
    IF ed.doc.id = Null \/ ~ed.isEditing THEN [docs |-> docs, ed |-> ed]
    ELSE LET doc == Spread(ed.doc, [content |-> ed.text, updatedAt |-> t])
         IN  [docs |-> saveDocument(docs, lib, doc, Null, nextId, t).list,
              ed |-> [ed EXCEPT !.doc = doc]]

\* the Save button
EditorSaveDocument ==
    LET r == editorSave(documents, editor, now)
    IN  /\ EditorMayCall
        /\ editor.doc.id # Null
        /\ documents' = r.docs
        /\ editor' = r.ed
        /\ last' = EditorOp("saveDocument", editor.doc.id, Deleted)
        /\ EditorFrame

\* the auto-save timer fires: autoSaveDocument
AutoSaveDocument ==
    LET r == editorSave(documents, editor, now)
    IN  /\ editor.timer
        /\ documents' = r.docs
        /\ editor' = [r.ed EXCEPT !.timer = FALSE]
        /\ last' = Spread(last, [op |-> "autoSaveDocument",
                                 arg |-> editor.doc.id, deleted |-> Deleted])
        /\ EditorFrame

\* App.deleteDocument from the history dialog, confirm() answered yes
AppDeleteDocument(id) ==
    /\ EditorMayCall
    /\ documents' = deleteDocument(documents, lib, id, Null).list
    /\ last' = EditorOp("appDeleteDocument", id, Deleted \cup {id})
    /\ UNCHANGED editor
    /\ EditorFrame

InitEditor ==
    /\ \E n \in 1..MaxStored : documents = StoredList(n)
    /\ chats = <<>>
    /\ files = <<>>
    /\ lib = EmptyMap
    /\ now = 1
    /\ nextId = 1
    /\ currentDoc = Null
    /\ Constructed
    /\ Seeded
    /\ last = Op("init", Null, Null)

NextEditor ==
    \/ \E i \in 1..MaxStored : EditorDisplayDocument(i)
    \/ ToggleEditMode
    \/ HandleContentChange
    \/ EditorSaveDocument
    \/ AutoSaveDocument
    \/ \E id \in StoredIds : AppDeleteDocument(id)

SpecEditor == InitEditor /\ [][NextEditor]_vars

\* ================================================================ claims
Range(s) == {s[i] : i \in 1..Len(s)}

Record(list, id) == list[FindIndex(list, id)]

\* a is b with some elements left out
RECURSIVE IsSubseq(_, _)
IsSubseq(a, b) ==
    IF a = <<>> THEN TRUE
    ELSE IF b = <<>> THEN FALSE
    ELSE IF Head(a) = Head(b) THEN IsSubseq(Tail(a), Tail(b))
    ELSE IsSubseq(a, Tail(b))

SwitchOps == {"switchSession", "openChatSessionById"}

DeleteOps == {"clearCurrentChat", "deleteChatSession", "appDeleteChatSession"}

Matching(list, d) == {i \in 1..Len(list) : DocIdOf(list[i]) = d}

\* C1: a switch to a persisted session saves the outgoing session first:
\* right after switchSession(B.id), every message of the outgoing session's
\* in-memory list, saved before or not, is in its persisted record.
C1_SwitchSavesOutgoing ==
    [][(/\ last'.op \in SwitchOps
        /\ currentSession # NoSession
        /\ FindIndex(chats, last'.arg) # 0)
       => LET i == FindIndex(chats', currentSession.id)
          IN  /\ i # 0
              /\ \A k \in 1..Len(messages) :
                    messages[k] \in Range(MessagesOf(chats'[i]))]_vars

\* a switch away from a session whose question was not saved yet: the
\* question is in that session's persisted record while its reply is awaited
C1_Witness ==
    /\ last.op = "switchSession"
    /\ last.pre # Null
    /\ last.pre # last.arg
    /\ currentSession.id = last.arg
    /\ \E q \in pending :
          UserMessage(q) \in Range(MessagesOf(Record(chats, last.pre)))

\* C2: with a document displayed and at least one session bound to it,
\* loadChatSessions makes current a most recently updated session among
\* those bound to it, whatever the other sessions' updatedAt.
C2_DocumentMatchFirst ==
    [][(/\ last'.op = "loadChatSessions"
        /\ chats # <<>>
        /\ currentDoc # Null
        /\ Matching(chats, currentDoc) # {})
       => \E i \in Matching(chats, currentDoc) :
             /\ currentSession' = Without(chats[i], {"messages"})
             /\ messages' = chats[i].messages
             /\ \A j \in Matching(chats, currentDoc) :
                   chats[j].updatedAt <= chats[i].updatedAt]_vars

\* loaded: a session of the displayed document, although a session of
\* another document was updated later
C2_Witness ==
    /\ last.op = "loadChatSessions"
    /\ last.arg # Null
    /\ currentSession # NoSession
    /\ DocIdOf(currentSession) = last.arg
    /\ \E i \in 1..Len(chats) :
          /\ DocIdOf(chats[i]) \notin {Null, last.arg}
          /\ chats[i].updatedAt > currentSession.updatedAt

\* C3: with no document displayed, or no session bound to the displayed
\* one, loadChatSessions makes current a most recently updated session of
\* all.
C3_FallbackMostRecent ==
    [][(/\ last'.op = "loadChatSessions"
        /\ chats # <<>>
        /\ (currentDoc = Null \/ Matching(chats, currentDoc) = {}))
       => \E i \in 1..Len(chats) :
             /\ currentSession' = Without(chats[i], {"messages"})
             /\ messages' = chats[i].messages
             /\ \A j \in 1..Len(chats) :
                   chats[j].updatedAt <= chats[i].updatedAt]_vars

\* loaded with a document displayed that no session is bound to: the latest
\* session, which is not the first stored one
C3_Witness ==
    /\ last.op = "loadChatSessions"
    /\ last.arg # Null
    /\ Matching(chats, last.arg) = {}
    /\ Len(chats) >= 2
    /\ currentSession # NoSession
    /\ currentSession.id # chats[1].id
    /\ chats[1].updatedAt < currentSession.updatedAt

\* C4: createNewSession(false) on a current session of at most one message
\* changes nothing; createNewSession(true) appends exactly one record with
\* a fresh id to chats, makes it current, and its messages are exactly one
\* welcome message of type ai.
C4_CreateNewSession ==
    [][/\ (/\ last'.op = "createNewSession"
           /\ last'.arg = 0
           /\ currentSession # NoSession
           /\ Len(messages) <= 1)
          => (/\ currentSession' = currentSession
              /\ messages' = messages
              /\ chats' = chats)
       /\ (last'.op = "createNewSession" /\ last'.arg = 1)
          => (/\ Len(chats') = Len(chats) + 1
              /\ SubSeq(chats', 1, Len(chats)) = chats
              /\ chats'[Len(chats')].id \notin Ids(chats)
              /\ currentSession'.id = chats'[Len(chats')].id
              /\ MessagesOf(chats'[Len(chats')]) = messages'
              /\ Len(messages') = 1
              /\ messages'[1].type = "ai"
              /\ messages'[1].content[1] = "welcome")]_vars

\* createNewSession(false) has just reused a session that holds only its
\* welcome message, in a store where a forced creation added a second one
C4_Witness ==
    /\ last.op = "createNewSession"
    /\ last.arg = 0
    /\ last.pre <= 1
    /\ Len(chats) >= 2
    /\ currentSession.id = chats[Len(chats)].id

\* C5: messages are append-only per session: whatever handler runs, the
\* persisted message list of a session that is still stored keeps every
\* message it had, in the same order.
C5_AppendOnly ==
    [][\A id \in Ids(chats) \cap Ids(chats') :
          IsSubseq(MessagesOf(Record(chats, id)),
                   MessagesOf(Record(chats', id)))]_vars

\* C6: while the panel is open there is a current session, and deleting the
\* current session (by any of the three deletions) removes its record and
\* makes a newly created, different session current.
C6_NeverWithoutSession ==
    [][/\ isOpen' => currentSession' # NoSession
       /\ (/\ last'.op \in DeleteOps
           /\ currentSession # NoSession
           /\ last'.arg = currentSession.id
           /\ last'.arg \in Ids(chats))
          => (/\ last'.arg \notin Ids(chats')
              /\ currentSession' # NoSession
              /\ currentSession'.id # last'.arg
              /\ currentSession'.id \notin Ids(chats)
              /\ currentSession'.id \in Ids(chats'))]_vars

\* the history dialog has just deleted the session that was current, with
\* the panel open
C6_Witness ==
    /\ last.op = "appDeleteChatSession"
    /\ last.pre = last.arg
    /\ isOpen
    /\ last.arg \notin Ids(chats)
    /\ currentSession.id \in Ids(chats)

\* C7: a save (closeChat, or the save that ends sendMessage) of a session
\* whose docId is set persists that docId, whatever associatedDocId is.
C7_SaveKeepsDocId ==
    [][(/\ last'.op \in {"closeChat", "aiReply"}
        /\ currentSession # NoSession
        /\ DocIdOf(currentSession) # Null)
       => DocIdOf(Record(chats', currentSession.id))
              = DocIdOf(currentSession)]_vars

\* C8: a document-displayed event with id D sets associatedDocId to D and,
\* when there is a current session, sets its docId and the docId of its
\* persisted record to D; without a current session chats is unchanged.
C8_DisplayRestamps ==
    [][last'.op = "displayDocument"
       => (/\ associatedDocId' = last'.arg
           /\ currentSession # NoSession
              => (/\ DocIdOf(currentSession') = last'.arg
                  /\ currentSession'.id = currentSession.id
                  /\ FindIndex(chats', currentSession.id) # 0
                  /\ DocIdOf(Record(chats', currentSession.id)) = last'.arg)
           /\ currentSession = NoSession => chats' = chats)]_vars

\* a document was displayed while the current session was bound to another
\* one: its persisted record now carries the new document
C8_Witness ==
    /\ last.op = "displayDocument"
    /\ last.pre \notin {Null, last.arg}
    /\ associatedDocId = last.arg
    /\ DocIdOf(Record(chats, currentSession.id)) = last.arg

\* C9: saveDocument(d) called twice in a row with the same object adds no
\* record the second time, keeps the createdAt the first call stored and
\* does not decrease updatedAt.
C9_SaveTwiceIdempotent ==
    [][(/\ last.op = "saveDocument"
        /\ last'.op = "saveDocument"
        /\ last'.ent = last.ent
        /\ last'.calls = last.calls + 1)
       => LET i == FindIndex(documents, last.arg)
          IN  /\ Len(documents') = Len(documents)
              /\ documents'[i].createdAt = documents[i].createdAt
              /\ documents'[i].updatedAt >= documents[i].updatedAt]_vars

\* what the merge claim says of one stored record old, the entity e saved
\* over it and the record new stored afterwards
MergeKeeps(old, e, new) ==
    /\ \A f \in DOMAIN old \ (DOMAIN e \cup {"updatedAt"}) :
          Has(new, f) /\ new[f] = old[f]
    /\ \A f \in DOMAIN e \ {"updatedAt"} : Has(new, f) /\ new[f] = e[f]

SavedOver(name, list, list2) ==
    (/\ last'.op = name
     /\ FindIndex(list, EntityId(last'.ent)) # 0)
    => LET i == FindIndex(list, EntityId(last'.ent))
       IN  MergeKeeps(list[i], last'.ent, list2[i])

\* C10: a save over a stored record keeps every field the entity omits
\* (createdAt, or uploadedAt for a file, among them), takes every field the
\* entity carries, and restamps updatedAt alone.
C10_MergeKeepsOmitted ==
    [][/\ SavedOver("saveDocument", documents, documents')
       /\ SavedOver("saveChatSession", chats, chats')
       /\ SavedOver("saveUploadedFile", files, files')]_vars

UniqueIds(list) ==
    \A i, j \in 1..Len(list) : list[i].id = list[j].id => i = j

\* C11: from seeded empty collections, whatever saves (with or without an
\* id on the entity) and deletes are made, no two records of one collection
\* have the same id.
C11_IdsUnique ==
    /\ UniqueIds(documents)
    /\ UniqueIds(chats)
    /\ UniqueIds(files)

\* a document saved under a caller's id, one saved without id, and the
\* first entity saved again: the third save met the stored record
C11_Witness ==
    /\ last.op = "saveDocument"
    /\ last.calls = 3
    /\ EntityId(last.ent) # Null
    /\ Len(documents) = 2
    /\ documents[1].id = EntityId(last.ent)
    /\ documents[2].id # documents[1].id

\* C12: no write failure leaves StorageManager as an exception, and every
\* one is reported as false: a save or delete during which a storage write
\* raised has returned false.
C12_FailuresReturnFalse ==
    (Has(last, "raised") /\ last.raised) => last.ret = "false"

\* C13: a getter returns null for a key never written and an empty list
\* once initializeStorage has seeded it; initializeStorage writes exactly
\* the keys that read as uninitialized and leaves a key that holds a list,
\* empty or not, as it is.
C13_SeedOnlyUninitialized ==
    [][last'.op = "initializeStorage"
       => \A k \in ListKeys :
             /\ k \notin keys
                => (/\ getStored(Store, k).isNull
                    /\ ~getStored(Store', k).isNull
                    /\ getStored(Store', k).value = <<>>
                    /\ k \in last'.seeded)
             /\ k \in keys
                => (/\ ~getStored(Store, k).isNull
                    /\ getStored(Store', k) = getStored(Store, k)
                    /\ k \notin last'.seeded)]_vars

\* a construction that seeded the chats, kept the documents an earlier
\* visit stored and left the empty files list alone
C13_Witness ==
    /\ last.op = "initializeStorage"
    /\ last.calls = 1
    /\ "chats" \in last.seeded
    /\ "documents" \notin last.seeded
    /\ "files" \notin last.seeded
    /\ Len(documents) >= 1
    /\ files = <<>>

\* C14: with two instances initializing concurrently, no seeding write of
\* one instance erases an entity the other has persisted.
C14_SeedNeverErases ==
    [][last'.op = "seed"
       => /\ Ids(documents) \subseteq Ids(documents')
          /\ Ids(chats) \subseteq Ids(chats')
          /\ Ids(files) \subseteq Ids(files')]_vars

\* C15: deleteDocument(id) removes the record with that id and nothing
\* else: every other document (a solution of the deleted exercise among
\* them) stays as it was, in the same order, and chats and files are
\* unchanged (a session bound to the deleted document keeps its docId and
\* messages).
C15_DeleteOnlyThatDocument ==
    [][last'.op = "deleteDocument"
       => /\ last'.arg \notin Ids(documents')
          /\ IsSubseq(documents', documents)
          /\ \A i \in 1..Len(documents) :
                documents[i].id # last'.arg
                => documents[i] \in Range(documents')
          /\ chats' = chats
          /\ files' = files]_vars

\* an exercise was deleted: its solution and the session bound to it are
\* still stored
C15_Witness ==
    /\ last.op = "deleteDocument"
    /\ last.calls = 1
    /\ last.arg \notin Ids(documents)
    /\ \E i \in 1..Len(documents) :
          /\ Has(documents[i], "parentExerciseId")
          /\ documents[i].parentExerciseId = last.arg
    /\ \E i \in 1..Len(chats) :
          /\ DocIdOf(chats[i]) = last.arg
          /\ MessagesOf(chats[i]) # <<>>

\* the doc mirror entries of a library root, as <<project, id>> pairs
DocEntries(root) ==
    {x \in (DOMAIN root) \X (CallerIds \cup (1..(MaxIds + 1))) :
        x[2] \in DOMAIN root[x[1]].docs}

\* C16: after saveDocument(doc, p) the library holds under project p an
\* entry keyed by the id of the stored record, of contentType markdown,
\* whose fileName is determined by the title alone; after
\* deleteDocument(id, p) that entry is gone and every other doc entry, of
\* this and of other projects, is unchanged.
C16_DocMirror ==
    [][/\ (last'.op = "saveDocument" /\ last'.pre # Null)
          => (/\ last'.pre \in DOMAIN lib'
              /\ last'.arg \in Ids(documents')
              /\ last'.arg \in DOMAIN lib'[last'.pre].docs
              /\ lib'[last'.pre].docs[last'.arg].id = last'.arg
              /\ lib'[last'.pre].docs[last'.arg].contentType = "markdown"
              /\ \A x, y \in DocEntries(lib') :
                    EntityTitle(lib'[x[1]].docs[x[2]])
                        = EntityTitle(lib'[y[1]].docs[y[2]])
                    => lib'[x[1]].docs[x[2]].fileName
                           = lib'[y[1]].docs[y[2]].fileName)
       /\ (last'.op = "deleteDocument" /\ last'.pre # Null)
          => (/\ <<last'.pre, last'.arg>> \notin DocEntries(lib')
              /\ \A x \in DocEntries(lib) \ {<<last'.pre, last'.arg>>} :
                    /\ x \in DocEntries(lib')
                    /\ lib'[x[1]].docs[x[2]] = lib[x[1]].docs[x[2]])]_vars

\* a document mirrored under project 1 was deleted there (the project is
\* left without docs) while project 2 still holds its entry
C16_Witness ==
    /\ last.op = "deleteDocument"
    /\ last.pre = 1
    /\ 1 \in DOMAIN lib
    /\ DOMAIN lib[1].docs = {}
    /\ 2 \in DOMAIN lib
    /\ DOMAIN lib[2].docs # {}

\* C17: the library mirror is in sync with the flat collections: every chat
\* entry of the persisted library refers to a session that is still in
\* chats and sits under the project that is the session's grouping key
\* (its docId), and every doc entry refers to a stored document.
C17_MirrorInSync ==
    \A q \in DOMAIN lib :
        /\ \A j \in DOMAIN lib[q].chats :
              /\ j \in Ids(chats)
              /\ DocIdOf(Record(chats, j)) = q
        /\ \A j \in DOMAIN lib[q].docs : j \in Ids(documents)

\* C18: every library writer names the mirror file by one rule: each
\* character of the title outside letters, digits, '-' and '_' becomes
\* '_', the case of the others is kept, '.md' (documents) or '.json'
\* (chats) is appended.  Checked on every entry with a non-empty title in
\* the persisted library and in the FileSystemManager's copy, and on the
\* file name a FileSystemManager writer returns.
ClaimedName(title, ext) == ReplaceEach(TitleText(title)) \o <<ext>>

NamedBy(entries, ext) ==
    \A j \in DOMAIN entries :
        EntityTitle(entries[j]) # Null
            => entries[j].fileName = ClaimedName(entries[j].title, ext)

C18_OneSanitizationRule ==
    /\ \A root \in {lib, projectStructure} : \A q \in DOMAIN root :
           /\ NamedBy(root[q].docs, ".md")
           /\ NamedBy(root[q].chats, ".json")
    /\ (Has(last, "fileName") /\ ~last.threw /\ EntityTitle(last.ent) # Null)
           => last.fileName =
                  ClaimedName(last.ent.title,
                              IF last.op = "saveDocumentToLib" THEN ".md"
                              ELSE ".json")

\* C19: cleanupEmptyProjects removes from the persisted library exactly
\* the projects whose docs, chats and files are all empty, returns how
\* many it removed, and every project with an entry stays in the persisted
\* library with all of its entries.
EmptyProjects(root) == {q \in DOMAIN root : IsEmptyProject(root[q])}

C19_CleanupExactlyEmpty ==
    [][last'.op = "cleanupEmptyProjects"
         => /\ DOMAIN lib' = DOMAIN lib \ EmptyProjects(lib)
            /\ last'.ret = Cardinality(EmptyProjects(lib))
            /\ \A q \in DOMAIN lib \ EmptyProjects(lib) :
                   /\ DOMAIN lib'[q].docs = DOMAIN lib[q].docs
                   /\ DOMAIN lib'[q].chats = DOMAIN lib[q].chats
                   /\ DOMAIN lib'[q].files = DOMAIN lib[q].files]_vars

\* C20: when real-AI mode is on and the AI call fails during
\* summarizeDocuments, explainContent, generateExercises or
\* generateSolutions, the operation does not throw; its document has the
\* fallback note followed by template text as content, aiType "simulated",
\* and getDocument(id) returns it afterwards.
AiFailed == Has(last, "aiFailed") /\ last.aiFailed

C20_FallbackDocument ==
    AiFailed
        => /\ ~last.threw
           /\ last.ent.content = <<FallbackNote>> \o Template(last.ent.type)
           /\ last.ent.aiType = "simulated"
           /\ getDocument(documents, last.ent.id).found
           /\ getDocument(documents, last.ent.id).content = last.ent.content

\* C21: an operation on an id that matches no record never throws and
\* changes nothing: a get returns no value, a delete (with or without a
\* project) leaves the stored records and the library as they were.
UnknownId(key, id) ==
    CASE key = "documents" -> FindIndex(documents, id) = 0
      [] key = "chats" -> FindIndex(chats, id) = 0
      [] key = "files" -> FindIndex(files, id) = 0

C21_UnknownIdHarmless ==
    [][(last'.op \in {"get", "delete"} /\ UnknownId(last'.key, last'.arg))
          => /\ last'.op = "get" => last'.ret = "undefined"
             /\ <<documents, chats, files, lib>>' =
                    <<documents, chats, files, lib>>]_vars

\* C22: switchSession with an empty id or an id that matches no persisted
\* session changes nothing: currentSession, messages, associatedDocId, the
\* persisted chats and the library stay as they were (the outgoing session
\* is not saved).
C22_UnknownSwitchNoOp ==
    [][(last'.op = "switchSession" /\ FindIndex(chats, last'.arg) = 0)
          => UNCHANGED <<currentSession, messages, associatedDocId, chats,
                         lib>>]_vars

\* a switch to an id no session has, while the current session had
\* changes that were not persisted
C22_Witness ==
    /\ last.op = "switchSession"
    /\ last.arg # Null
    /\ FindIndex(chats, last.arg) = 0
    /\ last.pre # Null
    /\ currentSession.id = last.pre

\* C23: a key holding text that does not parse is read as empty and makes
\* no operation throw: the list getters return an empty list, and get by
\* id, search, save, delete, updateSetting and the library helpers on such
\* a key complete without throwing.
C23_CorruptReadsEmpty ==
    (Has(last, "wasCorrupt") /\ last.wasCorrupt)
        => /\ last.ret # "throw"
           /\ last.op = "getList" => last.value = <<>>

\* C24: two tabs on the same storage do not coordinate and the last writer
\* wins: when a tab's sendMessage completes, the persisted record of its
\* session holds exactly that tab's in-memory messages, so a message the
\* other tab saved to the same session in between is no longer persisted.
C24_LastWriterWins ==
    [][/\ (last'.op = "tab2AIReply" /\ tab2.cs # NoSession)
            => MessagesOf(Record(chats', tab2.cs.id)) = tab2'.msgs
       /\ (last'.op = "aiReply" /\ currentSession # NoSession)
            => MessagesOf(Record(chats', currentSession.id)) = messages'
      ]_vars

\* the second tab saved a session whose persisted record held the first
\* tab's question, which the second tab never loaded: the question is gone
\* and the second tab's is persisted
C24_Witness ==
    /\ last.op = "tab2AIReply"
    /\ last.pre # Null
    /\ tab2.cs.id = currentSession.id
    /\ UserMessage(1) \in Range(messages)
    /\ UserMessage(1) \notin Range(MessagesOf(Record(chats, last.pre)))
    /\ UserMessage(last.arg) \in Range(MessagesOf(Record(chats, last.pre)))

\* C25: sendMessage writes nothing to the persisted chats when it appends
\* the user message, and when the reply has been appended it saves once:
\* only the record of the current session is written, and that record
\* holds both the user message and the reply.
C25_BurstCommitsOnce ==
    [][/\ last'.op = "sendMessage" => (chats' = chats /\ lib' = lib)
       /\ last'.op = "aiReply"
            => /\ \A i \in 1..Len(chats) :
                      chats[i].id # currentSession.id
                          => (i <= Len(chats') /\ chats'[i] = chats[i])
               /\ FindIndex(chats', currentSession.id) # 0
               /\ {UserMessage(last'.arg), AIMessage(last'.arg)}
                      \subseteq Range(MessagesOf(Record(chats',
                                                        currentSession.id)))
      ]_vars

\* C26: the documents collection keeps insertion order: a save of a stored
\* id leaves the sequence of ids as it was, a save of a new id appends it,
\* and a delete removes the id and keeps the order of the others.
IdsOf(list) == [i \in 1..Len(list) |-> list[i].id]

C27_ReplyWithQuestion ==
    [][last'.op = "aiReply"
          => \A i \in 1..Len(chats') :
                 AIMessage(last'.arg) \in Range(MessagesOf(chats'[i]))
                     <=> UserMessage(last'.arg)
                             \in Range(MessagesOf(chats'[i]))]_vars

\* C28: the two writers of the library key do not lose each other's
\* updates: an entry mirrored through StorageManager (it has no savedAt) is
\* still in the persisted library after a FileSystemManager operation that
\* does not target it.
FsDocOps == {"saveDocumentToLib", "deleteDocumentFromLib"}

FsChatOps == {"saveChatToLib"}

KeptBy(entries, entriesAfter, targeted) ==
    \A j \in DOMAIN entries :
        (~Has(entries[j], "savedAt") /\ ~targeted[j])
            => j \in DOMAIN entriesAfter

C28_WritersKeepEntries ==
    [][last'.op \in FsDocOps \cup FsChatOps \cup {"cleanupEmptyProjects"}
          => \A q \in DOMAIN lib :
                 LET hit(ops) == [j \in 1..(10 + NumCallerIds) |->
                                     /\ last'.op \in ops
                                     /\ last'.pre = q
                                     /\ last'.arg = j]
                     after == IF q \in DOMAIN lib' THEN lib'[q]
                              ELSE [docs |-> EmptyMap, chats |-> EmptyMap]
                 IN  /\ KeptBy(lib[q].docs, after.docs, hit(FsDocOps))
                     /\ KeptBy(lib[q].chats, after.chats, hit(FsChatOps))
      ]_vars

\* C29: a deleted document stays deleted: once App.deleteDocument(id) has
\* run, the documents collection holds no record with that id, whatever the
\* editor does afterwards (auto-save timer, Save button).
C29_DeletedStaysDeleted ==
    \A id \in Deleted : FindIndex(documents, id) = 0

\* C30: the mirror written by a save equals the record stored by that
\* save: after saveDocument(doc, projectId) or saveChatSession(chat,
\* projectId) on an id that is already stored, the library entry carries,
\* apart from fileName and contentType, exactly the fields of the stored
\* (merged) record.
MirrorOf(entry) == Without(entry, {"fileName", "contentType"})

C30_MirrorEqualsStored ==
    [][/\ (/\ last'.op = "saveDocument"
           /\ last'.pre # Null
           /\ FindIndex(documents, last'.arg) # 0)
            => MirrorOf(lib'[last'.pre].docs[last'.arg])
                   = Record(documents', last'.arg)
       /\ (/\ last'.op = "saveChatSession"
           /\ last'.pre # Null
           /\ FindIndex(chats, last'.arg) # 0)
            => MirrorOf(lib'[last'.pre].chats[last'.arg])
                   = Record(chats', last'.arg)
      ]_vars

====
